---- MODULE Spec2Model ----
(***************************************************************************)
(* A model of the PII detection and de-identification engine               *)
(* (pii_utils.py) and of the two hosts that drive it (app.py: the desktop  *)
(* Worker, web_app.py: process_file).                                      *)
(*                                                                         *)
(* Strings are sequences of one-character strings.  The default patterns    *)
(* are kept as lists of items (a word boundary, or a character class with  *)
(* a repetition count) and matched as re matches them: leftmost, greedy,    *)
(* giving back one character at a time, without overlap.  SHA-256 is stood  *)
(* in for by a digest of the same shape (64 lowercase hex digits).          *)
(*                                                                         *)
(* The module holds eight specifications over one set of variables: the    *)
(* validators, one pseudonymizer, the metrics engine, one category handler *)
(* and _apply_mask, each driven on its own (SpecValidator, SpecPseudo,     *)
(* SpecMetrics, SpecHandler, SpecMask), a handler called with a pattern of *)
(* the caller's and again on its own output (SpecRepeat), the compilation  *)
(* of the override patterns by a host (SpecOverrides), and a batch run by  *)
(* a host (Spec).                                                          *)
(***************************************************************************)
EXTENDS Integers, Sequences, FiniteSets, TLC

VARIABLES
  \* -- a validator called on its own (aadhaar_verhoeff, luhn_checksum_ok)
  v_arg,        \* the argument string
  v_provenance,   \* how v_arg was made: "input", "luhn_built", "luhn_altered",
                  \* "verhoeff_built", "verhoeff_altered"
  v_called,      \* "none", "verhoeff" or "luhn": the validator last called
  v_outcome     \* what that call did: "none", "True", "False", "ValueError"

vars_validator == <<v_arg, v_provenance, v_called, v_outcome>>

VARIABLES
  \* -- one EmailPseudonymizer object driven on its own
  pseudonymizer,  \* [mapping, counter]: the fields of the object
  pseudo_calls    \* the calls made so far: <<local_part, returned alias>>

vars_pseudo == <<pseudonymizer, pseudo_calls>>

VARIABLES
  \* -- the metrics engine
  summary,          \* [rows_processed, matches]: the batch aggregate
  expected_counts,  \* category -> << >> (None) or <<n>>
  report_metrics,   \* << >> until computed, then <<category -> entry>>
  metrics_by        \* "none", "web" or "desktop": who computed report_metrics

vars_metrics == <<summary, expected_counts, report_metrics, metrics_by>>

\* One call of a category handler: the category, the text, the keyword
\* arguments (a MaskConfig, with the 'context' entry process_text adds), the
\* context dict, the position of the random source, and what the call
\* returned (<< >> before the call).  h_pattern is the pattern argument
\* (<< >> for None, or <<pattern>>), and h_second what a second call of the
\* same handler on the text the first one returned gave (<< >> before it).
VARIABLES h_key, h_text, h_kwargs, h_context, h_rnd, h_result, h_pattern, h_second
vars_handler == <<h_key, h_text, h_kwargs, h_context, h_rnd, h_result, h_pattern, h_second>>

\* One call of _apply_mask on its own: the matched text m.group(0), the
\* strategy, the mask character, and the string returned (<< >> before the
\* call, then <<string>>).
VARIABLES m_text, m_strategy, m_char, m_out
vars_mask == <<m_text, m_strategy, m_char, m_out>>

\* The override patterns of a run: the host that compiles them, whether the
\* preset is selected, the pattern texts the user entered (category -> text),
\* the dict of compiled overrides, the categories a warning was shown for,
\* the position (compile, run, done, or raised when the host's code left with
\* an exception), and the record the run produced (<< >> before).
VARIABLES o_host, use_preset, custom_patterns, compiled, warnings, o_pc, o_out
vars_overrides == <<o_host, use_preset, custom_patterns, compiled, warnings, o_pc, o_out>>

\* A batch run.  host is the program that runs it: the web host
\* (process_file), the desktop host (Worker.run), or a program that calls
\* detect_and_deidentify_record itself with a context of its own.  pc is the
\* position in the loop over the rows.  last_calls holds, for the last record
\* processed, the turns of each process_text call.  self_patterns and
\* self_mask_configs are the patterns and mask_configs the run was given.
VARIABLES host, pc, input_rows, self_patterns, self_mask_configs, run_context,
          deidentified_rows, is_interrupted, outcome, last_calls,
          emitted  \* the signals the Worker has emitted, in order, each with
                   \* what it carries
vars_batch == <<host, pc, input_rows, self_patterns, self_mask_configs, run_context,
                deidentified_rows, is_interrupted, outcome, last_calls, emitted>>

\* What the actions of each part leave alone: the variables of the other parts.
\* A batch run writes the metrics variables itself.
outside_validator == <<vars_pseudo, vars_metrics, vars_handler, vars_mask, vars_overrides, vars_batch>>
outside_pseudo == <<vars_validator, vars_metrics, vars_handler, vars_mask, vars_overrides, vars_batch>>
outside_metrics == <<vars_validator, vars_pseudo, vars_handler, vars_mask, vars_overrides, vars_batch>>
outside_handler == <<vars_validator, vars_pseudo, vars_metrics, vars_mask, vars_overrides, vars_batch>>
outside_mask == <<vars_validator, vars_pseudo, vars_metrics, vars_handler, vars_overrides, vars_batch>>
outside_overrides == <<vars_validator, vars_pseudo, vars_metrics, vars_handler, vars_mask, vars_batch>>
outside_batch == <<vars_validator, vars_pseudo, vars_handler, vars_mask, vars_overrides>>

\* ------------------------------------------------------------------------
\* Bounds of the model
\* ------------------------------------------------------------------------
\* Longest digit payload the validator inputs are drawn from.
MaxDigits == 20
\* Most calls made on one pseudonymizer.
MaxCalls == 4
\* Largest found count and largest expected count given to the metrics engine.
MaxFound == 10
MaxExpected == 10
\* The longest input file of a batch run, in rows.
MaxRows == 2
\* The longest matched text given to _apply_mask on its own: one more than
\* twice the length of XOR_KEY.
MaxTextLen == 57

\* ------------------------------------------------------------------------
\* Characters
\* ------------------------------------------------------------------------
DigitChars == {"0", "1", "2", "3", "4", "5", "6", "7", "8", "9"}

\* int(c) for an ASCII digit.
IntOf(c) ==
  CASE c = "0" -> 0 [] c = "1" -> 1 [] c = "2" -> 2 [] c = "3" -> 3
    [] c = "4" -> 4 [] c = "5" -> 5 [] c = "6" -> 6 [] c = "7" -> 7
    [] c = "8" -> 8 [] c = "9" -> 9

\* str(d) for d in 0..9.
CharOf(d) == <<"0", "1", "2", "3", "4", "5", "6", "7", "8", "9">>[d + 1]

\* Characters for which str.isdigit() is true but int() raises ValueError
\* (superscript digits and the like).
SuperDigits == {"^2"}

\* c.isdigit()
IsDigitPy(c) == c \in DigitChars \cup SuperDigits

\* The characters a string [^0-9] / [^\d] leaves in place.
IsAsciiDigit(c) == c \in DigitChars

\* re.sub(r"[^0-9]", "", s) and re.sub(r"[^\d]", "", s)
StripNonDigits(s) == SelectSeq(s, IsAsciiDigit)

\* ------------------------------------------------------------------------
\* Verhoeff validator
\* ------------------------------------------------------------------------
d_table ==
  << <<0,1,2,3,4,5,6,7,8,9>>, <<1,2,3,4,0,6,7,8,9,5>>, <<2,3,4,0,1,7,8,9,5,6>>,
     <<3,4,0,1,2,8,9,5,6,7>>, <<4,0,1,2,3,9,5,6,7,8>>, <<5,9,8,7,6,0,4,3,2,1>>,
     <<6,5,9,8,7,1,0,4,3,2>>, <<7,6,5,9,8,2,1,0,4,3>>, <<8,7,6,5,9,3,2,1,0,4>>,
     <<9,8,7,6,5,4,3,2,1,0>> >>

p_table ==
  << <<0,1,2,3,4,5,6,7,8,9>>, <<1,5,7,6,2,8,3,0,9,4>>, <<5,8,0,3,7,9,6,1,4,2>>,
     <<8,9,1,6,0,4,3,5,2,7>>, <<9,4,5,3,1,2,6,8,7,0>>, <<4,2,8,6,5,7,9,3,0,1>>,
     <<2,7,9,3,8,0,4,6,1,5>>, <<7,0,4,6,9,1,3,2,5,8>> >>

RECURSIVE VerhoeffWalk(_, _, _)
\* The loop of aadhaar_verhoeff: i counts the digits taken so far from the
\* right end of number, c is the running check value.
VerhoeffWalk(number, i, c) ==
  IF i = Len(number) THEN c
  ELSE VerhoeffWalk(number, i + 1,
         d_table[c + 1][p_table[(i % 8) + 1][IntOf(number[Len(number) - i]) + 1] + 1])

\* A variant of aadhaar_verhoeff whose walk uses the permutation row i + 1
\* for the i-th digit from the right, the row the check-digit generator uses
\* (a "0" at the right end leaves c at 0 and moves every digit one row on).
aadhaar_verhoeff_generator_rows(number) ==
  LET cleaned == StripNonDigits(number)
  IN VerhoeffWalk(Append(cleaned, "0"), 0, 0) = 0

\* aadhaar_verhoeff(number): TRUE or FALSE.  After the strip every character
\* is an ASCII digit, so int() cannot raise and no index leaves the tables.
aadhaar_verhoeff(number) ==
  LET cleaned == StripNonDigits(number)
  IN VerhoeffWalk(cleaned, 0, 0) = 0

\* ------------------------------------------------------------------------
\* Luhn validator
\* ------------------------------------------------------------------------
RECURSIVE LuhnTotal(_, _, _)
\* The loop of luhn_checksum_ok from index i (0-based) on.
LuhnTotal(digits, parity, i) ==
  IF i = Len(digits) THEN 0
  ELSE LET d0 == digits[i + 1]
           d1 == IF i % 2 = parity THEN d0 * 2 ELSE d0
           d2 == IF d1 > 9 THEN d1 - 9 ELSE d1
       IN d2 + LuhnTotal(digits, parity, i + 1)

\* luhn_checksum_ok(number): "True", "False", or "ValueError" when the list
\* comprehension meets a character that isdigit() accepts and int() rejects.
luhn_checksum_ok(number) ==
  LET kept == SelectSeq(number, IsDigitPy)
  IN IF \E i \in 1..Len(kept) : kept[i] \notin DigitChars THEN "ValueError"
     ELSE LET digits == [i \in 1..Len(kept) |-> IntOf(kept[i])]
          IN IF ~(13 <= Len(digits) /\ Len(digits) <= 19) THEN "False"
             ELSE IF LuhnTotal(digits, Len(digits) % 2, 0) % 10 = 0
                  THEN "True" ELSE "False"

\* ------------------------------------------------------------------------
\* Categories (the keys of PII_HANDLERS, in its order)
\* ------------------------------------------------------------------------
HandlerOrder ==
  <<"aadhaar", "pan", "credit_card", "email", "passport", "driving_license",
    "phone", "person", "voter_id", "dob">>

PII_HANDLERS == {HandlerOrder[i] : i \in 1..Len(HandlerOrder)}

\* ------------------------------------------------------------------------
\* EmailPseudonymizer
\* ------------------------------------------------------------------------
RECURSIVE DecStr(_)
\* str(n) for n >= 0: the decimal digits of n.
DecStr(n) == IF n < 10 THEN <<CharOf(n)>> ELSE DecStr(n \div 10) \o <<CharOf(n % 10)>>

\* f"user{counter}"
UserAlias(n) == <<"u", "s", "e", "r">> \o DecStr(n)

\* EmailPseudonymizer.__init__: an empty mapping and counter 1.  The mapping
\* is kept as a function from the recorded keys to their aliases.
NewPseudonymizer == [mapping |-> << >>, counter |-> 1]

\* A variant of pseudonymize that allocates a new alias on every call.
pseudonymize_always_new(self, local_part) ==
  LET obj == [mapping |-> [k \in DOMAIN self.mapping \cup {local_part} |->
                             IF k = local_part THEN UserAlias(self.counter)
                             ELSE self.mapping[k]],
              counter |-> self.counter + 1]
  IN [self |-> obj, alias |-> obj.mapping[local_part]]

\* A variant of pseudonymize that advances the counter on every call.
pseudonymize_counts_every_call(self, local_part) ==
  LET obj == [mapping |-> [k \in DOMAIN self.mapping \cup {local_part} |->
                             IF k \in DOMAIN self.mapping THEN self.mapping[k]
                             ELSE UserAlias(self.counter)],
              counter |-> self.counter + 1]
  IN [self |-> obj, alias |-> obj.mapping[local_part]]

\* EmailPseudonymizer.pseudonymize(local_part): the object after the call and
\* the alias returned.
pseudonymize(self, local_part) ==
  LET obj == IF local_part \notin DOMAIN self.mapping
             THEN [mapping |-> [k \in DOMAIN self.mapping \cup {local_part} |->
                                  IF k = local_part THEN UserAlias(self.counter)
                                  ELSE self.mapping[k]],
                   counter |-> self.counter + 1]
             ELSE self
  IN [self |-> obj, alias |-> obj.mapping[local_part]]

\* ------------------------------------------------------------------------
\* Metrics engine
\* ------------------------------------------------------------------------
\* Python's None and an int n as an optional value.
None == << >>
Some(n) == <<n>>

Min(a, b) == IF a <= b THEN a ELSE b
Max(a, b) == IF a >= b THEN a ELSE b

RECURSIVE Gcd(_, _)
Gcd(a, b) == IF b = 0 THEN a ELSE Gcd(b, a % b)

\* The float a / b (a >= 0, b > 0) as a fraction in lowest terms.  The counts
\* are far below 2^53, so two such quotients are the same float exactly when
\* they are the same fraction, and they compare as the fractions do.
Frac(a, b) == LET g == Gcd(a, b) IN <<a \div g, b \div g>>
Zero == <<0, 1>>
FracGeq(x, y) == x[1] * y[2] >= y[1] * x[2]
FracPos(x) == x[1] > 0
FracAdd(x, y) == Frac(x[1] * y[2] + y[1] * x[2], x[2] * y[2])
FracMul(x, y) == Frac(x[1] * y[1], x[2] * y[2])
FracDiv(x, y) == Frac(x[1] * y[2], x[2] * y[1])

\* A variant of the entry whose risk rules test the precision bands first.
MetricEntryBandsFirst(found, expected) ==
  LET isset == expected # None
      tp == IF isset THEN Min(found, expected[1]) ELSE found
      fp == IF isset THEN Max(0, found - expected[1]) ELSE 0
      fn == IF isset THEN Max(0, expected[1] - found) ELSE 0
      precision == IF tp + fp > 0 THEN Frac(tp, tp + fp) ELSE Zero
      recall == IF tp + fn > 0 THEN Frac(tp, tp + fn) ELSE Zero
      f1 == IF FracPos(FracAdd(precision, recall))
            THEN FracDiv(FracMul(<<2, 1>>, FracMul(precision, recall)),
                         FracAdd(precision, recall))
            ELSE Zero
      risk_level ==
        IF ~isset THEN "N/A"
        ELSE IF FracGeq(precision, <<4, 5>>) THEN "Medium"
        ELSE IF FracGeq(precision, <<1, 2>>) THEN "High"
        ELSE IF tp = 0 /\ fp > 0 THEN "Critical"
        ELSE IF tp > 0 /\ fp = 0 THEN "Low"
        ELSE "Critical"
  IN [found |-> found, expected |-> expected, tp |-> tp, fp |-> fp,
      precision |-> precision, recall |-> recall, f1 |-> f1, risk |-> risk_level]

\* A variant of the entry whose second rule gives Low whenever fp is 0, with
\* no test of tp.
MetricEntryLowWithoutTp(found, expected) ==
  LET isset == expected # None
      tp == IF isset THEN Min(found, expected[1]) ELSE found
      fp == IF isset THEN Max(0, found - expected[1]) ELSE 0
      fn == IF isset THEN Max(0, expected[1] - found) ELSE 0
      precision == IF tp + fp > 0 THEN Frac(tp, tp + fp) ELSE Zero
      recall == IF tp + fn > 0 THEN Frac(tp, tp + fn) ELSE Zero
      f1 == IF FracPos(FracAdd(precision, recall))
            THEN FracDiv(FracMul(<<2, 1>>, FracMul(precision, recall)),
                         FracAdd(precision, recall))
            ELSE Zero
      risk_level ==
        IF ~isset THEN "N/A"
        ELSE IF tp = 0 /\ fp > 0 THEN "Critical"
        ELSE IF fp = 0 THEN "Low"
        ELSE IF FracGeq(precision, <<4, 5>>) THEN "Medium"
        ELSE IF FracGeq(precision, <<1, 2>>) THEN "High"
        ELSE "Critical"
  IN [found |-> found, expected |-> expected, tp |-> tp, fp |-> fp,
      precision |-> precision, recall |-> recall, f1 |-> f1, risk |-> risk_level]

\* tp, fp and fn as the loop of calculate_metrics computes them (the same
\* three lines in Worker._calculate_metrics): fn is used for recall and is
\* not stored.
MetricLocals(found, expected) ==
  [tp |-> IF expected # None THEN Min(found, expected[1]) ELSE found,
   fp |-> IF expected # None THEN Max(0, found - expected[1]) ELSE 0,
   fn |-> IF expected # None THEN Max(0, expected[1] - found) ELSE 0]

\* The body of the loop of calculate_metrics (web_app.py) for one category:
\* the entry stored in metrics[key].  fn is a local of the loop; the entry
\* has no such key.
MetricEntry(found, expected) ==
  LET isset == expected # None
      tp == IF isset THEN Min(found, expected[1]) ELSE found
      fp == IF isset THEN Max(0, found - expected[1]) ELSE 0
      fn == IF isset THEN Max(0, expected[1] - found) ELSE 0
      precision == IF tp + fp > 0 THEN Frac(tp, tp + fp) ELSE Zero
      recall == IF tp + fn > 0 THEN Frac(tp, tp + fn) ELSE Zero
      f1 == IF FracPos(FracAdd(precision, recall))
            THEN FracDiv(FracMul(<<2, 1>>, FracMul(precision, recall)),
                         FracAdd(precision, recall))
            ELSE Zero
      risk_level ==
        IF ~isset THEN "N/A"
        ELSE IF tp = 0 /\ fp > 0 THEN "Critical"
        ELSE IF tp > 0 /\ fp = 0 THEN "Low"
        ELSE IF FracGeq(precision, <<4, 5>>) THEN "Medium"
        ELSE IF FracGeq(precision, <<1, 2>>) THEN "High"
        ELSE "Critical"
  IN [found |-> found, expected |-> expected, tp |-> tp, fp |-> fp,
      precision |-> precision, recall |-> recall, f1 |-> f1, risk |-> risk_level]

\* calculate_metrics(summary, expected_counts) of web_app.py.
calculate_metrics(sum, expected) ==
  [key \in PII_HANDLERS |-> MetricEntry(sum.matches[key], expected[key])]

\* The body of the loop of Worker._calculate_metrics (app.py) for one category.
WorkerMetricEntry(found, expected) ==
  LET isset == expected # None
      tp == IF isset THEN Min(found, expected[1]) ELSE found
      fp == IF isset THEN Max(0, found - expected[1]) ELSE 0
      fn == IF isset THEN Max(0, expected[1] - found) ELSE 0
      precision == IF tp + fp > 0 THEN Frac(tp, tp + fp) ELSE Zero
      recall == IF tp + fn > 0 THEN Frac(tp, tp + fn) ELSE Zero
      f1 == IF FracPos(FracAdd(precision, recall))
            THEN FracDiv(FracMul(<<2, 1>>, FracMul(precision, recall)),
                         FracAdd(precision, recall))
            ELSE Zero
      risk_level ==
        IF ~isset THEN "N/A"
        ELSE IF tp = 0 /\ fp > 0 THEN "Critical"
        ELSE IF tp > 0 /\ fp = 0 THEN "Low"
        ELSE IF FracGeq(precision, <<4, 5>>) THEN "Medium"
        ELSE IF FracGeq(precision, <<1, 2>>) THEN "High"
        ELSE "Critical"
  IN [found |-> found, expected |-> expected, tp |-> tp, fp |-> fp,
      precision |-> precision, recall |-> recall, f1 |-> f1, risk |-> risk_level]

\* Worker._calculate_metrics(summary) of app.py; expected is self.expected_counts.
Worker_calculate_metrics(sum, expected) ==
  [key \in PII_HANDLERS |-> WorkerMetricEntry(sum.matches[key], expected[key])]

\* ------------------------------------------------------------------------
\* Regular expressions (the part of re the patterns of pii_utils.py use)
\* ------------------------------------------------------------------------
Upper == {"A", "B", "C", "D", "E", "F", "G", "H", "I", "J", "K", "L", "M",
          "N", "O", "P", "Q", "R", "S", "T", "U", "V", "W", "X", "Y", "Z"}
Lower == {"a", "b", "c", "d", "e", "f", "g", "h", "i", "j", "k", "l", "m",
          "n", "o", "p", "q", "r", "s", "t", "u", "v", "w", "x", "y", "z"}
\* \w
WordChars == Upper \cup Lower \cup DigitChars \cup {"_"}

\* An item of a pattern: a word boundary \b, or a character class repeated
\* between min and max times (greedy).  Unbounded is a maximum no text reaches.
Unbounded == 1000
B == [b |-> TRUE, set |-> {}, min |-> 0, max |-> 0]
Rep(set, min, max) == [b |-> FALSE, set |-> set, min |-> min, max |-> max]
One(set) == Rep(set, 1, 1)
Opt(set) == Rep(set, 0, 1)

\* \b at position pos (the index of the next character) of text.
Boundary(text, pos) ==
  LET before == pos > 1 /\ text[pos - 1] \in WordChars
      after == pos <= Len(text) /\ text[pos] \in WordChars
  IN before # after

\* How many characters of text from pos on lie in set, at most max.
Run(set, text, pos, max) ==
  LET lim == Min(max, Len(text) - pos + 1)
      stops == {n \in 0..(lim - 1) : text[pos + n] \notin set}
  IN IF stops = {} THEN Max(lim, 0)
     ELSE CHOOSE n \in stops : \A m \in stops : n <= m

RECURSIVE MatchAt(_, _, _, _)
RECURSIVE TryLen(_, _, _, _, _)
\* The items from the k-th on matched at pos: the position after the match,
\* or 0 when they do not match.  Each item takes as much as it can and gives
\* back one character at a time when the rest fails.
MatchAt(items, k, text, pos) ==
  IF k > Len(items) THEN pos
  ELSE IF items[k].b
       THEN (IF Boundary(text, pos) THEN MatchAt(items, k + 1, text, pos) ELSE 0)
       ELSE LET r == Run(items[k].set, text, pos, items[k].max)
            IN IF r < items[k].min THEN 0 ELSE TryLen(items, k, text, pos, r)

TryLen(items, k, text, pos, n) ==
  LET ends == [m \in items[k].min..n |-> MatchAt(items, k + 1, text, pos + m)]
      fits == {m \in items[k].min..n : ends[m] # 0}
  IN IF fits = {} THEN 0
     ELSE ends[CHOOSE m \in fits : \A l \in fits : l <= m]

RECURSIVE MatchAlts(_, _, _, _)
\* The alternatives of a pattern tried in order at pos.
MatchAlts(alts, a, text, pos) ==
  IF a > Len(alts) THEN 0
  ELSE LET e == MatchAt(alts[a], 1, text, pos)
       IN IF e # 0 THEN e ELSE MatchAlts(alts, a + 1, text, pos)

RECURSIVE Scan(_, _)
\* The scan of re.sub from position pos on, ends[p] being the position after
\* the match that starts at p, or 0: the leftmost match, then the scan resumed
\* after it.
Scan(ends, pos) ==
  LET starts == {p \in DOMAIN ends : p >= pos /\ ends[p] # 0}
  IN IF starts = {} THEN << >>
     ELSE LET s == CHOOSE p \in starts : \A q \in starts : p <= q
          IN <<<<s, ends[s]>>>> \o Scan(ends, ends[s])

\* The non-overlapping matches of pattern in text from position pos on,
\* leftmost first, as the scan of re.sub finds them: <<start, end>> pairs,
\* end being the position after the match.  No pattern here matches the
\* empty string.
FindAll(pattern, text, pos) ==
  Scan([p \in 1..Len(text) |-> MatchAlts(pattern.alts, 1, text, p)], pos)

\* A match object: m.group(0), and m.group(n) for the groups of the default
\* patterns that the handlers read.
Group0(text, m) == SubSeq(text, m[1], m[2] - 1)

\* ------------------------------------------------------------------------
\* The default patterns
\* ------------------------------------------------------------------------
Sep == {" ", "-"}
EmailLocal == Upper \cup Lower \cup DigitChars \cup {".", "_", "%", "+", "-"}
EmailDomain == Upper \cup Lower \cup DigitChars \cup {".", "-"}
Whitespace == {" "}

\* r"\b[2-9]\d{3}[ -]?\d{4}[ -]?\d{4}\b"
AADHAAR_PATTERN ==
  [name |-> "aadhaar", groups |-> 0,
   alts |-> << <<B, One(DigitChars \ {"0", "1"}), Rep(DigitChars, 3, 3), Opt(Sep),
                 Rep(DigitChars, 4, 4), Opt(Sep), Rep(DigitChars, 4, 4), B>> >>]

\* r"\b([A-Z]{5}\d{4}[A-Z])\b"
PAN_PATTERN ==
  [name |-> "pan", groups |-> 1,
   alts |-> << <<B, Rep(Upper, 5, 5), Rep(DigitChars, 4, 4), One(Upper), B>> >>]

\* r"\b(\d{4}[- ]?\d{4}[- ]?\d{4}[- ]?\d{4})\b"
CREDIT_CARD_PATTERN ==
  [name |-> "credit_card", groups |-> 1,
   alts |-> << <<B, Rep(DigitChars, 4, 4), Opt(Sep), Rep(DigitChars, 4, 4), Opt(Sep),
                 Rep(DigitChars, 4, 4), Opt(Sep), Rep(DigitChars, 4, 4), B>> >>]

\* r"\b([A-Za-z0-9._%+-]+@([A-Za-z0-9.-]+\.[A-Za-z]{2,}))\b"
EMAIL_PATTERN ==
  [name |-> "email", groups |-> 2,
   alts |-> << <<B, Rep(EmailLocal, 1, Unbounded), One({"@"}),
                 Rep(EmailDomain, 1, Unbounded), One({"."}),
                 Rep(Upper \cup Lower, 2, Unbounded), B>> >>]

\* r"\b([A-Z]\d{7})\b"
PASSPORT_PATTERN ==
  [name |-> "passport", groups |-> 1,
   alts |-> << <<B, One(Upper), Rep(DigitChars, 7, 7), B>> >>]

\* r"\b(([A-Z]{2})-?(\d{13}))\b"
DRIVING_LICENSE_PATTERN ==
  [name |-> "driving_license", groups |-> 3,
   alts |-> << <<B, Rep(Upper, 2, 2), Opt({"-"}), Rep(DigitChars, 13, 13), B>> >>]

\* r"\b(?:\+91[\s-]?)?([6-9]\d{9})\b": the optional prefix is tried first.
PHONE_PATTERN ==
  [name |-> "phone", groups |-> 1,
   alts |-> << <<B, One({"+"}), One({"9"}), One({"1"}), Opt(Whitespace \cup {"-"}),
                 One({"6", "7", "8", "9"}), Rep(DigitChars, 9, 9), B>>,
               <<B, One({"6", "7", "8", "9"}), Rep(DigitChars, 9, 9), B>> >>]

\* One more part of a name: \s[A-Z][a-z]{2,}
NamePart == <<One(Whitespace), One(Upper), Rep(Lower, 2, Unbounded)>>

RECURSIVE NameParts(_)
NameParts(n) == IF n = 0 THEN << >> ELSE NamePart \o NameParts(n - 1)

\* The most parts after the first that a name in a text of the model has.
MaxNameParts == 3

\* r"\b([A-Z][a-z]{2,}(?:\s[A-Z][a-z]{2,})+)\b": the repeated group takes as
\* many parts as it can, so the alternatives run from the most parts down.
PERSON_PATTERN ==
  [name |-> "person", groups |-> 1,
   alts |-> [a \in 1..MaxNameParts |->
              <<B, One(Upper), Rep(Lower, 2, Unbounded)>>
                \o NameParts(MaxNameParts + 1 - a) \o <<B>>]]

\* r"\b([A-Z]{3}\d{7})\b"
VOTER_ID_PATTERN ==
  [name |-> "voter_id", groups |-> 1,
   alts |-> << <<B, Rep(Upper, 3, 3), Rep(DigitChars, 7, 7), B>> >>]

\* r"\b(\d{2}[/-]\d{2}[/-]\d{4}|\d{4}[/-]\d{2}[/-]\d{2})\b"
DOB_PATTERN ==
  [name |-> "dob", groups |-> 1,
   alts |-> << <<B, Rep(DigitChars, 2, 2), One({"/", "-"}), Rep(DigitChars, 2, 2),
                 One({"/", "-"}), Rep(DigitChars, 4, 4), B>>,
               <<B, Rep(DigitChars, 4, 4), One({"/", "-"}), Rep(DigitChars, 2, 2),
                 One({"/", "-"}), Rep(DigitChars, 2, 2), B>> >>]

\* The default pattern of each handler (p = pattern or <X>_PATTERN).
DefaultPattern(key) ==
  CASE key = "aadhaar" -> AADHAAR_PATTERN
    [] key = "pan" -> PAN_PATTERN
    [] key = "credit_card" -> CREDIT_CARD_PATTERN
    [] key = "email" -> EMAIL_PATTERN
    [] key = "passport" -> PASSPORT_PATTERN
    [] key = "driving_license" -> DRIVING_LICENSE_PATTERN
    [] key = "phone" -> PHONE_PATTERN
    [] key = "person" -> PERSON_PATTERN
    [] key = "voter_id" -> VOTER_ID_PATTERN
    [] key = "dob" -> DOB_PATTERN

\* ------------------------------------------------------------------------
\* Character codes, XOR, base64, upper-casing, the digest
\* ------------------------------------------------------------------------
\* The printable ASCII characters in code order, from 32 (space) to 126; the
\* double quote, the backslash and the backquote are written out as words.
AsciiPrintable ==
  <<" ", "!", "QUOTE", "#", "$", "%", "&", "'", "(", ")", "*", "+", ",", "-", ".", "/",
    "0", "1", "2", "3", "4", "5", "6", "7", "8", "9", ":", ";", "<", "=", ">", "?",
    "@", "A", "B", "C", "D", "E", "F", "G", "H", "I", "J", "K", "L", "M", "N", "O",
    "P", "Q", "R", "S", "T", "U", "V", "W", "X", "Y", "Z", "[", "BACKSLASH", "]", "^", "_",
    "BACKTICK", "a", "b", "c", "d", "e", "f", "g", "h", "i", "j", "k", "l", "m", "n", "o",
    "p", "q", "r", "s", "t", "u", "v", "w", "x", "y", "z", "{", "|", "}", "~">>

AsciiRange == {AsciiPrintable[i] : i \in 1..Len(AsciiPrintable)}

\* ord(c)
Ord(c) == 31 + CHOOSE i \in 1..Len(AsciiPrintable) : AsciiPrintable[i] = c

RECURSIVE Xor(_, _)
\* a ^ b
Xor(a, b) ==
  IF a = 0 THEN b
  ELSE IF b = 0 THEN a
  ELSE (((a % 2) + (b % 2)) % 2) + 2 * Xor(a \div 2, b \div 2)

\* XOR_KEY = "YourSecretKeyForPIIDetection"
XOR_KEY == <<"Y", "o", "u", "r", "S", "e", "c", "r", "e", "t", "K", "e", "y", "F", "o", "r", "P", "I", "I", "D", "e", "t", "e", "c", "t", "i", "o", "n">>

\* encrypt_decrypt with the key used once, not repeated: zip(text, key).
encrypt_decrypt_key_once(text, key) ==
  LET n == IF Len(text) <= Len(key) THEN Len(text) ELSE Len(key)
  IN [i \in 1..n |-> Xor(Ord(text[i]), Ord(key[i]))]

\* encrypt_decrypt(text, key): the code points of the result.  zip stops at the
\* shorter of text and key * (len(text) // len(key) + 1).
encrypt_decrypt(text, key) ==
  LET repeated == Len(key) * ((Len(text) \div Len(key)) + 1)
      n == IF Len(text) <= repeated THEN Len(text) ELSE repeated
  IN [i \in 1..n |-> Xor(Ord(text[i]), Ord(key[((i - 1) % Len(key)) + 1]))]

B64Alphabet ==
  <<"A", "B", "C", "D", "E", "F", "G", "H", "I", "J", "K", "L", "M", "N", "O", "P",
    "Q", "R", "S", "T", "U", "V", "W", "X", "Y", "Z", "a", "b", "c", "d", "e", "f",
    "g", "h", "i", "j", "k", "l", "m", "n", "o", "p", "q", "r", "s", "t", "u", "v",
    "w", "x", "y", "z", "0", "1", "2", "3", "4", "5", "6", "7", "8", "9", "+", "/">>

RECURSIVE b64encode(_)
\* base64.b64encode(bytes).decode(): three bytes give four characters, and a
\* last group of one or two bytes is padded with "=".
b64encode(bytes) ==
  IF Len(bytes) = 0 THEN << >>
  ELSE IF Len(bytes) = 1
  THEN <<B64Alphabet[(bytes[1] \div 4) + 1], B64Alphabet[((bytes[1] % 4) * 16) + 1],
         "=", "=">>
  ELSE IF Len(bytes) = 2
  THEN <<B64Alphabet[(bytes[1] \div 4) + 1],
         B64Alphabet[((bytes[1] % 4) * 16 + (bytes[2] \div 16)) + 1],
         B64Alphabet[((bytes[2] % 16) * 4) + 1], "=">>
  ELSE <<B64Alphabet[(bytes[1] \div 4) + 1],
         B64Alphabet[((bytes[1] % 4) * 16 + (bytes[2] \div 16)) + 1],
         B64Alphabet[((bytes[2] % 16) * 4 + (bytes[3] \div 64)) + 1],
         B64Alphabet[(bytes[3] % 64) + 1]>>
       \o b64encode(SubSeq(bytes, 4, Len(bytes)))

\* str.encode(): the XOR of two ASCII characters is below 128, one byte each.
Utf8(codes) == codes

LowerSeq ==
  <<"a", "b", "c", "d", "e", "f", "g", "h", "i", "j", "k", "l", "m",
    "n", "o", "p", "q", "r", "s", "t", "u", "v", "w", "x", "y", "z">>
UpperSeq ==
  <<"A", "B", "C", "D", "E", "F", "G", "H", "I", "J", "K", "L", "M",
    "N", "O", "P", "Q", "R", "S", "T", "U", "V", "W", "X", "Y", "Z">>

\* s.upper()
ToUpper(s) ==
  [i \in 1..Len(s) |->
     IF s[i] \in Lower THEN UpperSeq[CHOOSE j \in 1..26 : LowerSeq[j] = s[i]] ELSE s[i]]

HexDigits ==
  <<"0", "1", "2", "3", "4", "5", "6", "7", "8", "9", "a", "b", "c", "d", "e", "f">>

RECURSIVE Mix(_, _)
Mix(s, h) == IF s = << >> THEN h ELSE Mix(Tail(s), (h * 31 + Ord(Head(s))) % 251)

\* hashlib.sha256(s.encode()).hexdigest(): SHA-256 is not computed here.  The
\* digest is a function of the message and has the form of a digest, 64
\* lowercase hexadecimal digits.
HexDigest(s) ==
  LET seed == Mix(s, Len(s) + 7)
  IN [i \in 1..64 |-> HexDigits[(((seed + i) * (3 * i + 1)) % 16) + 1]]

\* ------------------------------------------------------------------------
\* _apply_mask
\* ------------------------------------------------------------------------
\* mask_char * n
MaskTimes(mask_char, n) == [i \in 1..(Len(mask_char) * n) |-> mask_char[((i - 1) % Len(mask_char)) + 1]]

\* kwargs.get(key, default)
Get(kwargs, key, default) == IF key \in DOMAIN kwargs THEN kwargs[key] ELSE default

\* _apply_mask(m, strategy, mask_char, pii_type, partial_mask_func), with
\* original_text = m.group(0) and partial the value of partial_mask_func(m).
\* mask_char is the config's char, a string.
_apply_mask(original_text, strategy, mask_char, pii_type, partial) ==
  IF strategy = "partial" THEN partial
  ELSE IF strategy = "full"
  THEN MaskTimes(mask_char, Len(original_text))
  ELSE IF strategy = "hash" THEN HexDigest(original_text)
  ELSE IF strategy = "encrypt"
  THEN b64encode(Utf8(encrypt_decrypt(original_text, XOR_KEY)))
  ELSE IF strategy = "redact"
  THEN <<"[">> \o ToUpper(pii_type) \o <<"_", "R", "E", "D", "A", "C", "T", "E", "D", "]">>
  ELSE original_text

\* ------------------------------------------------------------------------
\* The run context
\* ------------------------------------------------------------------------
\* A context argument: None, or a dict (a function from its keys to its
\* values).  The anonymizers are stored under 'email_anonymizer' and
\* 'person_anonymizer'.
NoContext == [is_none |-> TRUE, dict |-> << >>]
EmptyContext == [is_none |-> FALSE, dict |-> << >>]

\* "context and isinstance(context, dict)": None and the empty dict are falsy.
Truthy(context) == ~context.is_none /\ DOMAIN context.dict # {}

\* context.setdefault(key, EmailPseudonymizer()): the dict after the call.
SetDefault(context, key) ==
  IF key \in DOMAIN context.dict THEN context
  ELSE [context EXCEPT !.dict =
          [k \in DOMAIN context.dict \cup {key} |->
             IF k = key THEN NewPseudonymizer ELSE context.dict[k]]]

\* kwargs.get("context"): the dict the config's 'context' entry refers to, or
\* None when there is no such entry or it holds None.
KwContext(kwargs, context) ==
  IF Get(kwargs, "context", "None") = "None" THEN NoContext ELSE context

\* ------------------------------------------------------------------------
\* The category handlers
\* ------------------------------------------------------------------------
\* "pattern or <X>_PATTERN": pattern is << >> (None) or <<p>>.
PatternOr(pattern, default) == IF pattern = << >> THEN default ELSE pattern[1]

RECURSIVE Splice(_, _, _, _, _)
\* The text that re.sub builds: the stretches between the matches ms, and
\* reps[i] in place of the i-th match, from match i and position pos on.
Splice(text, ms, reps, i, pos) ==
  IF i > Len(ms) THEN SubSeq(text, pos, Len(text))
  ELSE SubSeq(text, pos, ms[i][1] - 1) \o reps[i] \o Splice(text, ms, reps, i + 1, ms[i][2])

\* s * n
Repeat(s, n) == [i \in 1..(Len(s) * n) |-> s[((i - 1) % Len(s)) + 1]]

\* s[-n:]
LastN(s, n) == IF Len(s) <= n THEN s ELSE SubSeq(s, Len(s) - n + 1, Len(s))

\* The number of TRUE entries of a sequence of booleans.
CountTrue(flags) == Cardinality({i \in 1..Len(flags) : flags[i]})

\* What a handler returns: the new text and the count.  With them: the
\* context dict as the call leaves it, the matches the scan found and what the
\* replacement callback returned for each.
Returned(text, ms, reps, count, context) ==
  [text |-> Splice(text, ms, reps, 1, 1), count |-> count, context |-> context,
   ms |-> ms, reps |-> reps, raised |-> ""]

\* The call does not return: the replacement function raised error at the
\* first match, before anything was written to the context.
Raises(text, context, error) ==
  [text |-> text, count |-> 0, context |-> context, ms |-> << >>, reps |-> << >>,
   raised |-> error]

\* A variant of mask_aadhaar that masks the matches whose checksum fails too.
mask_aadhaar_masks_rejected(text, pattern, kwargs, context, rnd) ==
  LET p == PatternOr(pattern, AADHAAR_PATTERN)
      ms == FindAll(p, text, 1)
      char == Get(kwargs, "char", <<"*">>)
      raw(i) == StripNonDigits(Group0(text, ms[i]))
      accepted == [i \in 1..Len(ms) |-> Len(raw(i)) = 12 /\ aadhaar_verhoeff(raw(i))]
      partial(i) == SubSeq(raw(i), 1, 4) \o <<"-">> \o Repeat(char, 4) \o <<"-">>
                      \o SubSeq(raw(i), 9, Len(raw(i)))
      reps == [i \in 1..Len(ms) |->
                _apply_mask(Group0(text, ms[i]), Get(kwargs, "strategy", "partial"),
                            char, <<"A", "a", "d", "h", "a", "a", "r">>, partial(i))]
  IN Returned(text, ms, reps, CountTrue(accepted), context)

\* mask_aadhaar(text, pattern, **kwargs)
mask_aadhaar(text, pattern, kwargs, context, rnd) ==
  LET p == PatternOr(pattern, AADHAAR_PATTERN)
      ms == FindAll(p, text, 1)
      char == Get(kwargs, "char", <<"*">>)
      raw(i) == StripNonDigits(Group0(text, ms[i]))
      accepted == [i \in 1..Len(ms) |-> Len(raw(i)) = 12 /\ aadhaar_verhoeff(raw(i))]
      partial(i) == SubSeq(raw(i), 1, 4) \o <<"-">> \o Repeat(char, 4) \o <<"-">>
                      \o SubSeq(raw(i), 9, Len(raw(i)))
      reps == [i \in 1..Len(ms) |->
                IF accepted[i]
                THEN _apply_mask(Group0(text, ms[i]), Get(kwargs, "strategy", "partial"),
                                 char, <<"A", "a", "d", "h", "a", "a", "r">>, partial(i))
                ELSE Group0(text, ms[i])]
  IN Returned(text, ms, reps, CountTrue(accepted), context)

\* The values generate_synthetic_pan() can draw here; the rnd-th, (rnd+1)-th,
\* ... are drawn in turn.
SyntheticPANs == <<<<"B", "A", "K", "E", "F", "0", "0", "4", "2", "Z">>, <<"Z", "U", "X", "I", "C", "9", "9", "9", "9", "A">>>>

\* anonymize_pan(text, pattern, **kwargs)
anonymize_pan(text, pattern, kwargs, context, rnd) ==
  LET p == PatternOr(pattern, PAN_PATTERN)
      ms == FindAll(p, text, 1)
      partial(i) == SyntheticPANs[((rnd + i) % Len(SyntheticPANs)) + 1]
      reps == [i \in 1..Len(ms) |->
                _apply_mask(Group0(text, ms[i]), Get(kwargs, "strategy", "partial"),
                            Get(kwargs, "char", <<"*">>), <<"P", "A", "N">>, partial(i))]
  IN Returned(text, ms, reps, Len(ms), context)

\* A variant of mask_credit_cards that counts only when the strategy is partial.
mask_credit_cards_partial_only(text, pattern, kwargs, context, rnd) ==
  LET p == PatternOr(pattern, CREDIT_CARD_PATTERN)
      ms == FindAll(p, text, 1)
      char == Get(kwargs, "char", <<"*">>)
      raw(i) == StripNonDigits(Group0(text, ms[i]))
      accepted == [i \in 1..Len(ms) |-> luhn_checksum_ok(raw(i)) = "True"]
      partial(i) == Repeat(char, 4) \o <<"-">> \o Repeat(char, 4) \o <<"-">>
                      \o Repeat(char, 4) \o <<"-">> \o LastN(raw(i), 4)
      reps == [i \in 1..Len(ms) |->
                IF accepted[i]
                THEN _apply_mask(Group0(text, ms[i]), Get(kwargs, "strategy", "partial"),
                                 char, <<"C", "r", "e", "d", "i", "t", " ", "C", "a", "r", "d">>, partial(i))
                ELSE Group0(text, ms[i])]
  IN Returned(text, ms, reps,
              IF Get(kwargs, "strategy", "partial") = "partial" THEN CountTrue(accepted) ELSE 0,
              context)

\* mask_credit_cards(text, pattern, **kwargs).  raw holds ASCII digits only,
\* so luhn_checksum_ok(raw) returns and does not raise.
mask_credit_cards(text, pattern, kwargs, context, rnd) ==
  LET p == PatternOr(pattern, CREDIT_CARD_PATTERN)
      ms == FindAll(p, text, 1)
      char == Get(kwargs, "char", <<"*">>)
      raw(i) == StripNonDigits(Group0(text, ms[i]))
      accepted == [i \in 1..Len(ms) |-> luhn_checksum_ok(raw(i)) = "True"]
      partial(i) == Repeat(char, 4) \o <<"-">> \o Repeat(char, 4) \o <<"-">>
                      \o Repeat(char, 4) \o <<"-">> \o LastN(raw(i), 4)
      reps == [i \in 1..Len(ms) |->
                IF accepted[i]
                THEN _apply_mask(Group0(text, ms[i]), Get(kwargs, "strategy", "partial"),
                                 char, <<"C", "r", "e", "d", "i", "t", " ", "C", "a", "r", "d">>, partial(i))
                ELSE Group0(text, ms[i])]
  IN Returned(text, ms, reps, CountTrue(accepted), context)

\* The index of the last c in s, or 0: where s.rsplit(c, 1) splits.
LastIndexOf(s, c) ==
  IF \E i \in 1..Len(s) : s[i] = c
  THEN CHOOSE i \in 1..Len(s) : s[i] = c /\ \A j \in (i + 1)..Len(s) : s[j] # c
  ELSE 0

RECURSIVE EmailPartials(_, _, _, _, _)
\* partial(match) of pseudo_email for the matches from the i-th on, in
\* order: the replacements, and the context dict after them.  group(1) of
\* the default pattern is the whole match.
EmailPartials(text, ms, i, context, acc) ==
  IF i > Len(ms) THEN [reps |-> acc, context |-> context]
  ELSE LET full_email == Group0(text, ms[i])
           at == LastIndexOf(full_email, "@")
           local == SubSeq(full_email, 1, at - 1)
           domain == SubSeq(full_email, at + 1, Len(full_email))
       IN IF at = 0
          THEN EmailPartials(text, ms, i + 1, context,
                 Append(acc, <<"I", "n", "v", "a", "l", "i", "d", " ", "E", "m", "a", "i", "l", " ", "M", "a", "t", "c", "h", ":", " ">> \o full_email))
          ELSE IF Truthy(context)
          THEN LET c1 == SetDefault(context, "email_anonymizer")
                   r == pseudonymize(c1.dict["email_anonymizer"], local)
                   c2 == [c1 EXCEPT !.dict["email_anonymizer"] = r.self]
               IN EmailPartials(text, ms, i + 1, c2,
                    Append(acc, r.alias \o <<"@">> \o domain))
          ELSE EmailPartials(text, ms, i + 1, context,
                 Append(acc, <<"u", "s", "e", "r", "@">> \o domain))

\* pseudo_email(text, pattern, **kwargs)
pseudo_email(text, pattern, kwargs, context, rnd) ==
  LET p == PatternOr(pattern, EMAIL_PATTERN)
      ms == FindAll(p, text, 1)
      strategy == Get(kwargs, "strategy", "partial")
      partials == EmailPartials(text, ms, 1, KwContext(kwargs, context), << >>)
      reps == [i \in 1..Len(ms) |->
                _apply_mask(Group0(text, ms[i]), strategy,
                            Get(kwargs, "char", <<"*">>), <<"E", "m", "a", "i", "l">>,
                            IF strategy = "partial" THEN partials.reps[i] ELSE << >>)]
  IN \* partial reads match.group(1): "no such group" for a pattern without groups
     IF strategy = "partial" /\ ms # << >> /\ p.groups < 1
     THEN Raises(text, context, "IndexError")
     ELSE Returned(text, ms, reps, Len(ms),
                   IF strategy = "partial" /\ Truthy(KwContext(kwargs, context))
                   THEN partials.context ELSE context)

\* mask_passport(text, pattern, **kwargs)
mask_passport(text, pattern, kwargs, context, rnd) ==
  LET p == PatternOr(pattern, PASSPORT_PATTERN)
      ms == FindAll(p, text, 1)
      char == Get(kwargs, "char", <<"*">>)
      partial(i) == LET raw == Group0(text, ms[i])
                    IN <<raw[1]>> \o Repeat(char, Len(raw) - 1)
      reps == [i \in 1..Len(ms) |->
                _apply_mask(Group0(text, ms[i]), Get(kwargs, "strategy", "partial"),
                            char, <<"P", "a", "s", "s", "p", "o", "r", "t">>, partial(i))]
  IN Returned(text, ms, reps, Len(ms), context)

\* mask_driving_license(text, pattern, **kwargs).  group(2) of the default
\* pattern is the two letters the match starts with; the override patterns
\* read here have no group or are the default pattern itself.
mask_driving_license(text, pattern, kwargs, context, rnd) ==
  LET p == PatternOr(pattern, DRIVING_LICENSE_PATTERN)
      ms == FindAll(p, text, 1)
      char == Get(kwargs, "char", <<"*">>)
      partial(i) == LET state_code == SubSeq(Group0(text, ms[i]), 1, 2)
                    IN IF state_code # << >> THEN state_code \o Repeat(char, 14)
                       ELSE Group0(text, ms[i])
      reps == [i \in 1..Len(ms) |->
                _apply_mask(Group0(text, ms[i]), Get(kwargs, "strategy", "partial"),
                            char, <<"D", "r", "i", "v", "i", "n", "g", " ", "L", "i", "c", "e", "n", "s", "e">>, partial(i))]
  IN \* partial reads match.group(2): "no such group" for a pattern with fewer groups
     IF Get(kwargs, "strategy", "partial") = "partial" /\ ms # << >> /\ p.groups < 2
     THEN Raises(text, context, "IndexError")
     ELSE Returned(text, ms, reps, Len(ms), context)

\* mask_phone(text, pattern, **kwargs)
mask_phone(text, pattern, kwargs, context, rnd) ==
  LET p == PatternOr(pattern, PHONE_PATTERN)
      ms == FindAll(p, text, 1)
      char == Get(kwargs, "char", <<"*">>)
      partial(i) == LET raw == LastN(StripNonDigits(Group0(text, ms[i])), 10)
                    IN SubSeq(raw, 1, 2) \o Repeat(char, 6) \o LastN(raw, 2)
      reps == [i \in 1..Len(ms) |->
                _apply_mask(Group0(text, ms[i]), Get(kwargs, "strategy", "partial"),
                            char, <<"P", "h", "o", "n", "e">>, partial(i))]
  IN Returned(text, ms, reps, Len(ms), context)

RECURSIVE Split(_)
\* s.split(): the maximal runs of s that hold no whitespace.
Split(s) ==
  IF s = << >> THEN << >>
  ELSE IF Head(s) \in Whitespace THEN Split(Tail(s))
  ELSE LET n == Run(AsciiRange \ Whitespace, s, 1, Len(s))
       IN <<SubSeq(s, 1, n)>> \o Split(SubSeq(s, n + 1, Len(s)))

RECURSIVE Join(_)
\* " ".join(parts)
Join(parts) ==
  IF parts = << >> THEN << >>
  ELSE IF Len(parts) = 1 THEN parts[1]
  ELSE parts[1] \o <<" ">> \o Join(Tail(parts))

RECURSIVE PseudonymizeParts(_, _, _, _)
\* [anonymizer.pseudonymize(p) for p in parts] from the j-th part on: the
\* aliases, and the anonymizer after the calls.
PseudonymizeParts(parts, j, anonymizer, acc) ==
  IF j > Len(parts) THEN [aliases |-> acc, self |-> anonymizer]
  ELSE LET r == pseudonymize(anonymizer, parts[j])
       IN PseudonymizeParts(parts, j + 1, r.self, Append(acc, r.alias))

RECURSIVE PersonPartials(_, _, _, _, _, _)
\* partial(match) of mask_person for the matches from the i-th on, in order.
PersonPartials(text, ms, i, char, context, acc) ==
  IF i > Len(ms) THEN [reps |-> acc, context |-> context]
  ELSE LET parts == Split(Group0(text, ms[i]))
       IN IF Truthy(context)
          THEN LET c1 == SetDefault(context, "person_anonymizer")
                   r == PseudonymizeParts(parts, 1, c1.dict["person_anonymizer"], << >>)
                   c2 == [c1 EXCEPT !.dict["person_anonymizer"] = r.self]
               IN PersonPartials(text, ms, i + 1, char, c2, Append(acc, Join(r.aliases)))
          ELSE PersonPartials(text, ms, i + 1, char, context,
                 Append(acc, Join([j \in 1..Len(parts) |->
                                     <<parts[j][1]>> \o Repeat(char, Len(parts[j]) - 1)])))

\* mask_person(text, pattern, **kwargs)
mask_person(text, pattern, kwargs, context, rnd) ==
  LET p == PatternOr(pattern, PERSON_PATTERN)
      ms == FindAll(p, text, 1)
      strategy == Get(kwargs, "strategy", "partial")
      char == Get(kwargs, "char", <<"*">>)
      partials == PersonPartials(text, ms, 1, char, KwContext(kwargs, context), << >>)
      reps == [i \in 1..Len(ms) |->
                _apply_mask(Group0(text, ms[i]), strategy, char, <<"P", "e", "r", "s", "o", "n">>,
                            IF strategy = "partial" THEN partials.reps[i] ELSE << >>)]
  IN Returned(text, ms, reps, Len(ms),
              IF strategy = "partial" /\ Truthy(KwContext(kwargs, context))
              THEN partials.context ELSE context)

\* The values generate_synthetic_voter_id() can draw here.
SyntheticVoterIDs == <<<<"Q", "W", "E", "0", "0", "0", "0", "1", "2", "3">>, <<"M", "N", "B", "7", "6", "5", "4", "3", "2", "1">>>>

\* mask_voter_id(text, pattern, **kwargs)
mask_voter_id(text, pattern, kwargs, context, rnd) ==
  LET p == PatternOr(pattern, VOTER_ID_PATTERN)
      ms == FindAll(p, text, 1)
      partial(i) == SyntheticVoterIDs[((rnd + i) % Len(SyntheticVoterIDs)) + 1]
      reps == [i \in 1..Len(ms) |->
                _apply_mask(Group0(text, ms[i]), Get(kwargs, "strategy", "partial"),
                            Get(kwargs, "char", <<"*">>), <<"V", "o", "t", "e", "r", "I", "D">>, partial(i))]
  IN Returned(text, ms, reps, Len(ms), context)

\* mask_dob(text, pattern, **kwargs)
mask_dob(text, pattern, kwargs, context, rnd) ==
  LET p == PatternOr(pattern, DOB_PATTERN)
      ms == FindAll(p, text, 1)
      char == Get(kwargs, "char", <<"*">>)
      partial(i) == Repeat(char, Len(Group0(text, ms[i])))
      reps == [i \in 1..Len(ms) |->
                _apply_mask(Group0(text, ms[i]), Get(kwargs, "strategy", "partial"),
                            char, <<"D", "O", "B">>, partial(i))]
  IN Returned(text, ms, reps, Len(ms), context)

\* PII_HANDLERS[key](text, pattern=pattern, **kwargs)
Handler(key, text, pattern, kwargs, context, rnd) ==
  CASE key = "aadhaar" -> mask_aadhaar(text, pattern, kwargs, context, rnd)
    [] key = "pan" -> anonymize_pan(text, pattern, kwargs, context, rnd)
    [] key = "credit_card" -> mask_credit_cards(text, pattern, kwargs, context, rnd)
    [] key = "email" -> pseudo_email(text, pattern, kwargs, context, rnd)
    [] key = "passport" -> mask_passport(text, pattern, kwargs, context, rnd)
    [] key = "driving_license" -> mask_driving_license(text, pattern, kwargs, context, rnd)
    [] key = "phone" -> mask_phone(text, pattern, kwargs, context, rnd)
    [] key = "person" -> mask_person(text, pattern, kwargs, context, rnd)
    [] key = "voter_id" -> mask_voter_id(text, pattern, kwargs, context, rnd)
    [] key = "dob" -> mask_dob(text, pattern, kwargs, context, rnd)

\* ------------------------------------------------------------------------
\* process_text and detect_and_deidentify_record
\* ------------------------------------------------------------------------
\* {key: 0 for key in PII_HANDLERS}
ZeroCounts == [key \in PII_HANDLERS |-> 0]

\* (mask_configs or {}).get(key, {"enabled": False})
ConfigOf(mask_configs, key) ==
  IF key \in DOMAIN mask_configs THEN mask_configs[key]
  ELSE [x \in {"enabled"} |-> FALSE]

\* config.get("enabled")
Enabled(config) == "enabled" \in DOMAIN config /\ config["enabled"] = TRUE

\* config['context'] = context: the entry refers to the caller's dict, or
\* holds None.
WithContext(config, context) ==
  [x \in DOMAIN config \cup {"context"} |->
     IF x = "context" THEN (IF context.is_none THEN "None" ELSE "run_context")
     ELSE config[x]]

\* (patterns or {}).get(key)
PatternOverride(patterns, key) ==
  IF key \in DOMAIN patterns THEN <<patterns[key]>> ELSE << >>

\* What one turn of the loop leaves behind when the handler was called with
\* kwargs and returned r.
AfterCall(acc, key, kwargs, r, mask_configs) ==
  [text |-> r.text,
   counts |-> [acc.counts EXCEPT ![key] = @ + r.count],
   mask_configs |-> mask_configs,
   context |-> r.context,
   steps |-> Append(acc.steps,
               [key |-> key, invoked |-> TRUE, text_in |-> acc.text,
                text_out |-> r.text, context_in |-> acc.context,
                context_out |-> r.context, count |-> r.count, kwargs |-> kwargs]),
   raised |-> r.raised]

\* A variant of the loop body of process_text that calls the handler of a
\* category whatever its config says.
ProcessKeyIgnoringEnabled(acc, key, patterns, rnd) ==
  LET kwargs == WithContext(ConfigOf(acc.mask_configs, key), acc.context)
  IN CHOOSE out \in
       {AfterCall(acc, key, kwargs, r, acc.mask_configs) :
          r \in {Handler(key, acc.text, PatternOverride(patterns, key), kwargs,
                         acc.context, rnd)}} : TRUE

\* One turn of the loop of process_text, for category key.  acc holds text,
\* counts, the caller's mask_configs and the caller's context as they stand;
\* steps records each turn: whether the handler was called, and the text and
\* the context before and after.  (r ranges over the one value the handler
\* returns.)
ProcessKey(acc, key, patterns, rnd) ==
  LET config == ConfigOf(acc.mask_configs, key)
      kwargs == WithContext(config, acc.context)
  IN \* an exception of an earlier handler has left process_text
     IF acc.raised # "" THEN acc
     ELSE IF Enabled(config)
     THEN CHOOSE out \in
            {AfterCall(acc, key, kwargs, r,
                       IF key \in DOMAIN acc.mask_configs
                       THEN [acc.mask_configs EXCEPT ![key] = kwargs]
                       ELSE acc.mask_configs) :
               r \in {Handler(key, acc.text, PatternOverride(patterns, key), kwargs,
                              acc.context, rnd)}} : TRUE
     ELSE [acc EXCEPT !.steps =
             Append(acc.steps,
               [key |-> key, invoked |-> FALSE, text_in |-> acc.text,
                text_out |-> acc.text, context_in |-> acc.context,
                context_out |-> acc.context, count |-> 0, kwargs |-> config])]

RECURSIVE ProcessKeys(_, _, _, _)
\* The loop "for key, handler in PII_HANDLERS.items()" from the i-th key on
\* (next ranges over the one value the turn of the i-th key leaves).
ProcessKeys(acc, i, patterns, rnd) ==
  IF i > Len(HandlerOrder) THEN acc
  ELSE CHOOSE out \in
         {ProcessKeys(next, i + 1, patterns, rnd) :
            next \in {ProcessKey(acc, HandlerOrder[i], patterns, rnd)}} : TRUE

\* process_text(text, patterns, mask_configs, context): text and counts as
\* returned; mask_configs and context as the call leaves the caller's objects;
\* raised names the exception a handler left the call with ("" for none).
process_text(text, patterns, mask_configs, context, rnd) ==
  ProcessKeys([text |-> text, counts |-> ZeroCounts, mask_configs |-> mask_configs,
               context |-> context, steps |-> << >>, raised |-> ""], 1, patterns, rnd)

\* A cell of an input row: None, or a string.
NoneCell == [none |-> TRUE, s |-> << >>]
Cell(s) == [none |-> FALSE, s |-> s]

\* str(cell): a None cell is read as the text "None".
CellAsStr(cell) == IF cell.none THEN <<"N", "o", "n", "e">> ELSE cell.s

\* cell or ""
CellOrEmpty(cell) == IF cell.none THEN << >> ELSE cell.s

\* What the loop of detect_and_deidentify_record holds after a cell for which
\* process_text returned r.
AfterCell(acc, r) ==
  [out_row |-> IF r.raised = "" THEN Append(acc.out_row, r.text) ELSE acc.out_row,
   total_counts |-> [key \in PII_HANDLERS |->
                       acc.total_counts[key] + (IF r.raised = "" THEN r.counts[key] ELSE 0)],
   mask_configs |-> r.mask_configs,
   context |-> r.context,
   calls |-> Append(acc.calls, r.steps),
   raised |-> r.raised]

RECURSIVE ProcessCells(_, _, _, _, _)
\* The loop "for cell in row" of detect_and_deidentify_record from the i-th
\* cell on (next ranges over the one value the i-th cell leaves).
ProcessCells(acc, row, i, patterns, rnd) ==
  IF i > Len(row) \/ acc.raised # "" THEN acc
  ELSE CHOOSE out \in
         {ProcessCells(next, row, i + 1, patterns, rnd) :
            next \in {AfterCell(acc, r) :
                        r \in {process_text(CellOrEmpty(row[i]), patterns,
                                            acc.mask_configs, acc.context, rnd)}}} : TRUE

\* detect_and_deidentify_record(row, patterns, mask_configs, context): out_row
\* and total_counts as returned; calls holds the steps of each process_text.
detect_and_deidentify_record(row, patterns, mask_configs, context, rnd) ==
  ProcessCells([out_row |-> << >>, total_counts |-> ZeroCounts,
                mask_configs |-> mask_configs, context |-> context, calls |-> << >>,
                raised |-> ""],
               row, 1, patterns, rnd)

\* ------------------------------------------------------------------------
\* Specification of the validators called on their own
\* ------------------------------------------------------------------------
\* The digit string of length L whose i-th digit is (a + b*i) mod 10.
Payload(L, a, b) == [i \in 1..L |-> CharOf((a + b * i) % 10)]

RECURSIVE Dashed(_)
\* s with a "-" after every fourth character, as card numbers are written.
Dashed(s) ==
  IF Len(s) <= 4 THEN s
  ELSE SubSeq(s, 1, 4) \o <<"-">> \o Dashed(SubSeq(s, 5, Len(s)))

\* The ways an argument string is written around its digits.
Styled(s, style) ==
  CASE style = "plain" -> s
    [] style = "dashed" -> Dashed(s)
    [] style = "alpha" -> <<"a", " ">> \o s
    [] style = "super" -> s \o <<"^2">>

ValidatorInputs ==
  { Styled(Payload(L, a, b), style) :
      L \in 0..MaxDigits, a \in 0..9, b \in {1, 3},
      style \in {"plain", "dashed", "alpha", "super"} }

\* The 11-digit payloads a national-ID number is built from: the i-th digit
\* is (a + b*i + c*i*i) mod 10.
VerhoeffPayloads ==
  { [i \in 1..11 |-> CharOf((a + b * i + c * i * i) % 10)] :
      a \in 0..9, b \in 0..9, c \in 0..1 }

InitValidator ==
  /\ v_arg \in ValidatorInputs \cup VerhoeffPayloads
  /\ v_provenance = "input"
  /\ v_called = "none"
  /\ v_outcome = "none"

IdleValidator ==
  /\ v_arg = << >>
  /\ v_provenance = "input"
  /\ v_called = "none"
  /\ v_outcome = "none"

RECURSIVE LuhnPayloadSum(_, _)
\* The standard Luhn sum of a payload (the digits left of the check digit):
\* counting from the right, the 1st, 3rd, ... payload digits are doubled,
\* and 9 is taken off a doubled digit above 9.  j is the position from the right.
LuhnPayloadSum(payload, j) ==
  IF j > Len(payload) THEN 0
  ELSE LET d == IntOf(payload[Len(payload) - j + 1])
           v == IF j % 2 = 1 THEN (IF 2 * d > 9 THEN 2 * d - 9 ELSE 2 * d) ELSE d
       IN v + LuhnPayloadSum(payload, j + 1)

\* The check digit the standard construction appends to payload.
LuhnCheckDigit(payload) == (10 - (LuhnPayloadSum(payload, 1) % 10)) % 10

\* A card number is built from a payload of 12 to 18 digits.
AppendLuhnCheckDigit ==
  /\ v_provenance = "input" /\ v_called = "none"
  /\ \A i \in 1..Len(v_arg) : v_arg[i] \in DigitChars
  /\ 12 <= Len(v_arg) /\ Len(v_arg) <= 18
  /\ v_arg' = Append(v_arg, CharOf(LuhnCheckDigit(v_arg)))
  /\ v_provenance' = "luhn_built"
  /\ UNCHANGED <<v_called, v_outcome>>
  /\ UNCHANGED outside_validator

\* The inverse in the group of d_table: d_table[x][inv_table[x]] = 0.
inv_table == <<0, 4, 3, 2, 1, 5, 6, 7, 8, 9>>

RECURSIVE VerhoeffPayloadWalk(_, _, _)
\* The walk of the standard check-digit generator over a payload: the j-th
\* digit from the right goes through permutation row j mod 8.
VerhoeffPayloadWalk(payload, j, c) ==
  IF j > Len(payload) THEN c
  ELSE VerhoeffPayloadWalk(payload, j + 1,
         d_table[c + 1][p_table[(j % 8) + 1][IntOf(payload[Len(payload) - j + 1]) + 1] + 1])

\* The check digit the standard construction appends to payload.
VerhoeffCheckDigit(payload) == inv_table[VerhoeffPayloadWalk(payload, 1, 0) + 1]

\* A national-ID number is built from a payload of 11 digits.
AppendVerhoeffCheckDigit ==
  /\ v_provenance = "input" /\ v_called = "none"
  /\ v_arg \in VerhoeffPayloads
  /\ v_arg' = Append(v_arg, CharOf(VerhoeffCheckDigit(v_arg)))
  /\ v_provenance' = "verhoeff_built"
  /\ UNCHANGED <<v_called, v_outcome>>
  /\ UNCHANGED outside_validator

\* One digit of a built number is changed to a different digit.
AlterDigit ==
  /\ v_provenance \in {"luhn_built", "verhoeff_built"} /\ v_called = "none"
  /\ \E i \in 1..Len(v_arg), d \in DigitChars :
       /\ d # v_arg[i]
       /\ v_arg' = [v_arg EXCEPT ![i] = d]
  /\ v_provenance' = IF v_provenance = "luhn_built" THEN "luhn_altered"
                     ELSE "verhoeff_altered"
  /\ UNCHANGED <<v_called, v_outcome>>
  /\ UNCHANGED outside_validator

CallLuhn ==
  /\ v_called = "none"
  /\ v_called' = "luhn"
  /\ v_outcome' = luhn_checksum_ok(v_arg)
  /\ UNCHANGED <<v_arg, v_provenance>>
  /\ UNCHANGED outside_validator

CallVerhoeff ==
  /\ v_called = "none"
  /\ v_called' = "verhoeff"
  /\ v_outcome' = IF aadhaar_verhoeff(v_arg) THEN "True" ELSE "False"
  /\ UNCHANGED <<v_arg, v_provenance>>
  /\ UNCHANGED outside_validator

NextValidator ==
  \/ AppendLuhnCheckDigit
  \/ AppendVerhoeffCheckDigit
  \/ AlterDigit
  \/ CallLuhn
  \/ CallVerhoeff

\* ------------------------------------------------------------------------
\* Specification of one pseudonymizer driven on its own
\* ------------------------------------------------------------------------
\* The identity keys the calls are drawn from (email local-parts).
PseudoKeys == {<<"a">>, <<"b">>, <<"j", "o">>, <<"z">>}

InitPseudo ==
  /\ pseudonymizer = NewPseudonymizer
  /\ pseudo_calls = << >>

IdlePseudo == InitPseudo

\* anonymizer.pseudonymize(local_part)
Pseudonymize ==
  /\ Len(pseudo_calls) < MaxCalls
  /\ \E local_part \in PseudoKeys :
       LET r == pseudonymize(pseudonymizer, local_part)
       IN /\ pseudonymizer' = r.self
          /\ pseudo_calls' = Append(pseudo_calls, <<local_part, r.alias>>)
  /\ UNCHANGED outside_pseudo

NextPseudo == Pseudonymize

\* ------------------------------------------------------------------------
\* Specification of the metrics engine driven on its own
\* ------------------------------------------------------------------------
InitMetrics ==
  /\ \E c \in PII_HANDLERS, found \in 0..MaxFound,
        expected \in {None} \cup {Some(n) : n \in 0..MaxExpected} :
       /\ summary = [rows_processed |-> 0,
                     matches |-> [k \in PII_HANDLERS |-> IF k = c THEN found ELSE 0]]
       /\ expected_counts = [k \in PII_HANDLERS |-> IF k = c THEN expected ELSE None]
  /\ report_metrics = << >>
  /\ metrics_by = "none"

IdleMetrics ==
  /\ summary = [rows_processed |-> 0, matches |-> [k \in PII_HANDLERS |-> 0]]
  /\ expected_counts = [k \in PII_HANDLERS |-> None]
  /\ report_metrics = << >>
  /\ metrics_by = "none"

\* report_metrics = calculate_metrics(summary, expected_counts)
CalculateMetricsWeb ==
  /\ metrics_by = "none"
  /\ report_metrics' = <<calculate_metrics(summary, expected_counts)>>
  /\ metrics_by' = "web"
  /\ UNCHANGED <<summary, expected_counts>>
  /\ UNCHANGED outside_metrics

\* report_metrics = self._calculate_metrics(summary)
CalculateMetricsDesktop ==
  /\ metrics_by = "none"
  /\ report_metrics' = <<Worker_calculate_metrics(summary, expected_counts)>>
  /\ metrics_by' = "desktop"
  /\ UNCHANGED <<summary, expected_counts>>
  /\ UNCHANGED outside_metrics

NextMetrics ==
  \/ CalculateMetricsWeb
  \/ CalculateMetricsDesktop

\* ------------------------------------------------------------------------
\* Specification of one category handler called on its own
\* ------------------------------------------------------------------------
\* The strategies of a MaskConfig; "other" stands for any string that is none
\* of them (strategy is a str, and the web form posts it as typed).
Strategies == {"partial", "full", "hash", "encrypt", "redact"}
StrategyInputs == Strategies \cup {"other"}

MaskChars == {<<"*">>, <<"9">>}

\* A caller's context that already holds an entry of its own.
SeededContext == [is_none |-> FALSE, dict |-> [x \in {"seed"} |-> "x"]]

HandlerTexts ==
  { <<"2", "3", "4", "1", " ", "2", "3", "4", "1", " ", "2", "3", "4", "6", " ", "a", "n", "d", " ", "2", "3", "4", "1", "-", "2", "3", "4", "1", "-", "2", "3", "4", "7">>,
    <<"4", "1", "1", "1", "1", "1", "1", "1", "1", "1", "1", "1", "1", "1", "1", "1", " ", "4", "1", "1", "1", " ", "1", "1", "1", "1", " ", "1", "1", "1", "1", " ", "1", "1", "1", "2", " ", "5", "5", "0", "0", " ", "0", "0", "0", "0", " ", "0", "0", "0", "0", " ", "0", "0", "0", "4">>,
    <<"a", "@", "x", ".", "c", "o", " ", "b", "@", "x", ".", "c", "o", " ", "a", "@", "x", ".", "c", "o">>,
    <<"J", "o", "h", "n", " ", "S", "m", "i", "t", "h", " ", "a", "n", "d", " ", "M", "a", "r", "y", " ", "A", "n", "n">>,
    <<"A", "B", "C", "D", "E", "1", "2", "3", "4", "F", " ", "A", "1", "2", "3", "4", "5", "6", "7", " ", "A", "B", "C", "1", "2", "3", "4", "5", "6", "7">>,
    <<"K", "A", "-", "1", "2", "3", "4", "5", "6", "7", "8", "9", "0", "1", "2", "3", " ", "+", "9", "1", "-", "9", "8", "7", "6", "5", "4", "3", "2", "1", "0", " ", "1", "2", "/", "0", "3", "/", "1", "9", "9", "9">>,
    <<"2", "3", "4", "1", " ", "2", "3", "4", "1", " ", "2", "3", "4", "7">>,
    << >> }

\* {"enabled": True, "strategy": strategy, "char": char, "context": context}
MaskConfig(enabled, strategy, char) ==
  [x \in {"enabled", "strategy", "char"} |->
     CASE x = "enabled" -> enabled
       [] x = "strategy" -> strategy
       [] x = "char" -> char]

InitHandler ==
  /\ h_key \in PII_HANDLERS
  /\ h_text \in HandlerTexts
  /\ h_context \in {NoContext, EmptyContext, SeededContext}
  /\ \E strategy \in StrategyInputs, char \in MaskChars :
       h_kwargs = WithContext(MaskConfig(TRUE, strategy, char), h_context)
  /\ h_rnd \in 0..1
  /\ h_result = << >>
  /\ h_pattern = << >>
  /\ h_second = << >>

IdleHandler ==
  /\ h_key = "aadhaar"
  /\ h_text = << >>
  /\ h_context = NoContext
  /\ h_kwargs = WithContext(MaskConfig(TRUE, "partial", <<"*">>), NoContext)
  /\ h_rnd = 0
  /\ h_result = << >>
  /\ h_pattern = << >>
  /\ h_second = << >>

\* text, count = handler(text, pattern=pattern_override, **config)
CallHandler ==
  /\ h_result = << >>
  /\ h_result' = <<Handler(h_key, h_text, h_pattern, h_kwargs, h_context, h_rnd)>>
  /\ UNCHANGED <<h_key, h_text, h_kwargs, h_context, h_rnd, h_pattern, h_second>>
  /\ UNCHANGED outside_handler

NextHandler == CallHandler

\* ------------------------------------------------------------------------
\* Specification of one handler called with a pattern of the caller's, and
\* called again on its own output
\* ------------------------------------------------------------------------
\* The default pattern of a category written without its capturing
\* parentheses: the same matches, no group.
WithoutGroups(pattern) == [pattern EXCEPT !.groups = 0]

\* The pattern arguments of a category: None, its default pattern handed over
\* as an override, and that pattern without groups.
PatternArguments(key) ==
  {<< >>, <<DefaultPattern(key)>>, <<WithoutGroups(DefaultPattern(key))>>}

\* Mask characters: a punctuation mark and two digits.
RepeatMaskChars == {<<"*">>, <<"9">>, <<"0">>}

InitRepeat ==
  /\ h_key \in PII_HANDLERS
  /\ h_text \in HandlerTexts
  /\ h_context \in {NoContext, SeededContext}
  /\ \E strategy \in StrategyInputs, char \in RepeatMaskChars :
       h_kwargs = WithContext(MaskConfig(TRUE, strategy, char), h_context)
  /\ h_rnd = 0
  /\ h_result = << >>
  /\ h_pattern \in PatternArguments(h_key)
  /\ h_second = << >>

\* The same handler, called with the same pattern and config on the text the
\* first call returned.
SecondPass ==
  /\ h_result # << >>
  /\ h_result[1].raised = ""
  /\ h_second = << >>
  /\ h_second' = <<Handler(h_key, h_result[1].text, h_pattern, h_kwargs,
                           h_result[1].context, h_rnd)>>
  /\ UNCHANGED <<h_key, h_text, h_kwargs, h_context, h_rnd, h_result, h_pattern>>
  /\ UNCHANGED outside_handler

NextRepeat ==
  \/ CallHandler
  \/ SecondPass

\* ------------------------------------------------------------------------
\* Specification of _apply_mask on its own
\* ------------------------------------------------------------------------
\* A text of n printable characters: the characters from position `first` of
\* the printable range on, `step` apart.
MaskText(n, first, step) == [i \in 1..n |-> AsciiPrintable[((first + step * i) % 95) + 1]]

MaskTexts == {MaskText(n, first, step) : n \in 0..MaxTextLen, first \in {0, 17, 50}, step \in {1, 7}}

InitMask ==
  /\ m_text \in MaskTexts
  /\ m_strategy \in StrategyInputs
  /\ m_char \in MaskChars
  /\ m_out = << >>

IdleMask ==
  /\ m_text = << >>
  /\ m_strategy = "partial"
  /\ m_char = <<"*">>
  /\ m_out = << >>

\* _apply_mask(m, strategy, mask_char, 'Phone', partial_mask_func), with a
\* partial_mask_func that returns the match as it is.
ApplyMask ==
  /\ m_out = << >>
  /\ m_out' = <<_apply_mask(m_text, m_strategy, m_char, <<"P", "h", "o", "n", "e">>, m_text)>>
  /\ UNCHANGED <<m_text, m_strategy, m_char>>
  /\ UNCHANGED outside_mask

NextMask == ApplyMask

\* ------------------------------------------------------------------------
\* Specification of a batch run
\* ------------------------------------------------------------------------
\* The rows the input files are made of.
RowPool ==
  << <<Cell(<<"a", "@", "x", ".", "c", "o">>), Cell(<<"J", "o", "h", "n", " ", "S", "m", "i", "t", "h", " ", "2", "3", "4", "1", " ", "2", "3", "4", "1", " ", "2", "3", "4", "6">>)>>,
     <<Cell(<<"J", "o", "h", "n", " ", "S", "m", "i", "t", "h", " ", "a", "@", "x", ".", "c", "o">>), Cell(<<"4", "1", "1", "1", "1", "1", "1", "1", "1", "1", "1", "1", "1", "1", "1", "1", " ", "4", "1", "1", "1", "1", "1", "1", "1", "1", "1", "1", "1", "1", "1", "1", "2">>)>>,
     <<Cell(<<"b", "@", "x", ".", "c", "o", " ", "M", "a", "r", "y", " ", "A", "n", "n">>),
       Cell(<<"A", "B", "C", "D", "E", "1", "2", "3", "4", "F", " ", "A", "1", "2", "3", "4", "5", "6", "7", " ", "A", "B", "C", "1", "2", "3", "4", "5", "6", "7", " ", "K", "A", "-", "1", "2", "3", "4", "5", "6", "7", "8", "9", "0", "1", "2", "3", " ", "9", "8", "7", "6", "5", "4", "3", "2", "1", "0", " ", "1", "2", "/", "0", "3", "/", "1", "9", "9", "9">>)>> >>

\* The file of n rows that starts at the k-th row of the pool.
InputFile(k, n) == [i \in 1..n |-> RowPool[((k + i - 2) % Len(RowPool)) + 1]]

\* The file as a program of its own hands it over: a cell may be None.  The
\* i-th row holds a None cell at position i (at the end once i is past it).
WithNoneCell(rows) ==
  [i \in 1..Len(rows) |->
     LET at == IF i <= Len(rows[i]) THEN i ELSE Len(rows[i]) + 1
     IN SubSeq(rows[i], 1, at - 1) \o <<NoneCell>> \o SubSeq(rows[i], at, Len(rows[i]))]

\* What the user configures: one strategy for all categories and at most one
\* category switched off ("none" switches nothing off).
Settings ==
  {<<strategy, "none">> : strategy \in Strategies}
    \cup {<<strategy, off>> : strategy \in {"partial", "redact"}, off \in PII_HANDLERS}

\* _get_mask_configs / the mask_configs loop of upload_file: every category
\* has a config.
HostMaskConfigs(strategy, off) ==
  [key \in PII_HANDLERS |-> MaskConfig(key # off, strategy, <<"*">>)]

\* The mask_configs of a program of its own: the category left out has no config.
SparseMaskConfigs(strategy, off) ==
  [key \in PII_HANDLERS \ {off} |-> MaskConfig(TRUE, strategy, <<"*">>)]

ZeroSummary == [rows_processed |-> 0, matches |-> ZeroCounts]

\* The random draws a record can start from.
RandomDraws == 0..1

InitBatch ==
  /\ host \in {"web", "desktop", "library"}
  /\ \E k \in 1..Len(RowPool), n \in 0..MaxRows :
       /\ n = 0 => k = 1
       /\ input_rows = IF host = "library" THEN WithNoneCell(InputFile(k, n))
                       ELSE InputFile(k, n)
  /\ self_patterns = << >>
  /\ \E st \in Settings :
       self_mask_configs = IF host = "library" THEN SparseMaskConfigs(st[1], st[2])
                      ELSE HostMaskConfigs(st[1], st[2])
  \* run_context = {} in the hosts
  /\ run_context \in IF host = "library" THEN {NoContext, SeededContext}
                     ELSE {EmptyContext}
  /\ deidentified_rows = << >>
  /\ summary = ZeroSummary
  /\ expected_counts = [key \in PII_HANDLERS |->
                          IF key = "email" THEN Some(2) ELSE None]
  /\ report_metrics = << >>
  /\ metrics_by = "none"
  /\ is_interrupted = FALSE
  /\ outcome = "running"
  \* the hosts read the file first; a program of its own holds its rows
  /\ pc = IF host = "library" THEN "loop_test" ELSE "start"
  /\ emitted = << >>
  /\ last_calls = << >>

IdleBatch ==
  /\ host = "web"
  /\ input_rows = << >>
  /\ self_patterns = << >>
  /\ self_mask_configs = HostMaskConfigs("partial", "none")
  /\ run_context = EmptyContext
  /\ deidentified_rows = << >>
  /\ is_interrupted = FALSE
  /\ outcome = "running"
  /\ pc = "loop_test"
  /\ emitted = << >>
  /\ last_calls = << >>

\* The host has read the rows of the file (_read_csv, _read_txt, _read_pdf).
ReadInput ==
  /\ pc = "start"
  /\ pc' = "loop_test"
  /\ UNCHANGED <<emitted, host, input_rows, self_patterns, self_mask_configs, run_context,
                 deidentified_rows, is_interrupted, outcome, last_calls, vars_metrics>>
  /\ UNCHANGED outside_batch

\* Reading raises (no such file, bytes that are not UTF-8, or the ImportError
\* raised for a PDF when PyMuPDF is missing): the "except Exception" of the
\* host takes over; the desktop host emits error.
ReadRaises ==
  /\ pc = "start"
  /\ pc' = "done"
  /\ outcome' = "error"
  /\ emitted' = IF host = "desktop" THEN Append(emitted, [signal |-> "error"]) ELSE emitted
  /\ UNCHANGED <<host, input_rows, self_patterns, self_mask_configs, run_context,
                 deidentified_rows, is_interrupted, last_calls, vars_metrics>>
  /\ UNCHANGED outside_batch

\* "for row in input_rows:" and, in the desktop host,
\* "if self._is_interrupted: break"
LoopTest ==
  /\ pc = "loop_test"
  /\ pc' = IF Len(deidentified_rows) = Len(input_rows) THEN "after_loop"
           ELSE IF host = "desktop" /\ is_interrupted THEN "after_loop"
           ELSE "loop_body"
  /\ UNCHANGED <<emitted, host, input_rows, self_patterns, self_mask_configs, run_context,
                 deidentified_rows, is_interrupted, outcome, last_calls, vars_metrics>>
  /\ UNCHANGED outside_batch

\* A loop body that looks at the flag again once the row is appended, and
\* leaves the record uncounted when it is set.
ProcessRecordFlagMidRecord ==
  /\ pc = "loop_body"
  /\ \E rnd \in RandomDraws :
     \E r \in {detect_and_deidentify_record(input_rows[Len(deidentified_rows) + 1],
                   self_patterns, self_mask_configs, run_context, rnd)} :
          /\ deidentified_rows' = Append(deidentified_rows, r.out_row)
          /\ summary' = IF is_interrupted THEN summary
                        ELSE [rows_processed |-> summary.rows_processed + 1,
                              matches |-> [key \in PII_HANDLERS |->
                                             summary.matches[key] + r.total_counts[key]]]
          /\ self_mask_configs' = r.mask_configs
          /\ run_context' = r.context
          /\ last_calls' = r.calls
  /\ pc' = "loop_test"
  /\ UNCHANGED <<emitted, host, input_rows, self_patterns, is_interrupted, outcome,
                 expected_counts, report_metrics, metrics_by>>
  /\ UNCHANGED outside_batch

\* A loop body that stores the counts of the record in the summary in place
\* of adding them.
ProcessRecordOverwritesCounts ==
  /\ pc = "loop_body"
  /\ \E rnd \in RandomDraws :
     \E r \in {detect_and_deidentify_record(input_rows[Len(deidentified_rows) + 1],
                   self_patterns, self_mask_configs, run_context, rnd)} :
          /\ deidentified_rows' = Append(deidentified_rows, r.out_row)
          /\ summary' = [rows_processed |-> summary.rows_processed + 1,
                         matches |-> r.total_counts]
          /\ self_mask_configs' = r.mask_configs
          /\ run_context' = r.context
          /\ last_calls' = r.calls
  /\ pc' = "loop_test"
  /\ UNCHANGED <<emitted, host, input_rows, self_patterns, is_interrupted, outcome,
                 expected_counts, report_metrics, metrics_by>>
  /\ UNCHANGED outside_batch

\* The body of the loop: one record is processed, appended and counted.
ProcessRecord ==
  /\ pc = "loop_body"
  /\ \E rnd \in RandomDraws :
     \E r \in {detect_and_deidentify_record(input_rows[Len(deidentified_rows) + 1],
                   self_patterns, self_mask_configs, run_context, rnd)} :
          /\ deidentified_rows' = IF r.raised = "" THEN Append(deidentified_rows, r.out_row)
                                  ELSE deidentified_rows
          /\ summary' = IF r.raised = ""
                        THEN [rows_processed |-> summary.rows_processed + 1,
                              matches |-> [key \in PII_HANDLERS |->
                                             summary.matches[key] + r.total_counts[key]]]
                        ELSE summary
          /\ self_mask_configs' = r.mask_configs
          /\ run_context' = r.context
          /\ last_calls' = r.calls
          \* an exception leaves the loop: "except Exception" of the hosts
          /\ pc' = IF r.raised = "" THEN "loop_test" ELSE "done"
          /\ outcome' = IF r.raised = "" THEN outcome ELSE "error"
          \* self.error.emit(...) in the desktop host
          /\ emitted' = IF r.raised # "" /\ host = "desktop"
                        THEN Append(emitted, [signal |-> "error"])
                        ELSE emitted
  /\ UNCHANGED <<host, input_rows, self_patterns, is_interrupted,
                 expected_counts, report_metrics, metrics_by>>
  /\ UNCHANGED outside_batch

\* The web host after the loop: calculate_metrics, then the result is returned.
FinishWeb ==
  /\ pc = "after_loop" /\ host = "web"
  /\ report_metrics' = <<calculate_metrics(summary, expected_counts)>>
  /\ metrics_by' = "web"
  /\ outcome' = "finished"
  /\ pc' = "done"
  /\ UNCHANGED <<emitted, host, input_rows, self_patterns, self_mask_configs, run_context,
                 deidentified_rows, is_interrupted, last_calls, summary, expected_counts>>
  /\ UNCHANGED outside_batch

\* The end of run without "if not self._is_interrupted": finished is emitted
\* whether or not the loop was left by the break.
FinishDesktopWithoutFlagTest ==
  /\ pc = "after_loop" /\ host = "desktop"
  /\ report_metrics' = <<Worker_calculate_metrics(summary, expected_counts)>>
  /\ metrics_by' = "desktop"
  /\ outcome' = "finished"
  /\ emitted' = Append(emitted,
                        [signal |-> "finished", rows |-> deidentified_rows,
                         summary |-> summary,
                         report_metrics |-> Worker_calculate_metrics(summary, expected_counts)])
  /\ pc' = "done"
  /\ UNCHANGED <<host, input_rows, self_patterns, self_mask_configs, run_context,
                 deidentified_rows, is_interrupted, last_calls, summary, expected_counts>>
  /\ UNCHANGED outside_batch

\* The desktop host after the loop, not interrupted: _calculate_metrics, then
\* finished is emitted.
FinishDesktop ==
  /\ pc = "after_loop" /\ host = "desktop"
  /\ ~is_interrupted
  /\ report_metrics' = <<Worker_calculate_metrics(summary, expected_counts)>>
  /\ metrics_by' = "desktop"
  /\ outcome' = "finished"
  /\ emitted' = Append(emitted,
                        [signal |-> "finished", rows |-> deidentified_rows,
                         summary |-> summary,
                         report_metrics |-> Worker_calculate_metrics(summary, expected_counts)])
  /\ pc' = "done"
  /\ UNCHANGED <<host, input_rows, self_patterns, self_mask_configs, run_context,
                 deidentified_rows, is_interrupted, last_calls, summary, expected_counts>>
  /\ UNCHANGED outside_batch

\* The desktop host after the loop, interrupted: run returns and emits nothing.
ReturnInterrupted ==
  /\ pc = "after_loop" /\ host = "desktop"
  /\ is_interrupted
  /\ outcome' = "no_signal"
  /\ pc' = "done"
  /\ UNCHANGED <<emitted, host, input_rows, self_patterns, self_mask_configs, run_context,
                 deidentified_rows, is_interrupted, last_calls, vars_metrics>>
  /\ UNCHANGED outside_batch

\* A program of its own is through with its rows.
FinishLibrary ==
  /\ pc = "after_loop" /\ host = "library"
  /\ outcome' = "finished"
  /\ pc' = "done"
  /\ UNCHANGED <<emitted, host, input_rows, self_patterns, self_mask_configs, run_context,
                 deidentified_rows, is_interrupted, last_calls, vars_metrics>>
  /\ UNCHANGED outside_batch

\* Worker.stop(), called from the GUI thread while run is under way.
Stop ==
  /\ host = "desktop" /\ pc # "done"
  /\ ~is_interrupted
  /\ is_interrupted' = TRUE
  /\ UNCHANGED <<emitted, host, pc, input_rows, self_patterns, self_mask_configs, run_context,
                 deidentified_rows, outcome, last_calls, vars_metrics>>
  /\ UNCHANGED outside_batch

NextBatch ==
  \/ ReadInput
  \/ ReadRaises
  \/ LoopTest
  \/ ProcessRecord
  \/ FinishWeb
  \/ FinishDesktop
  \/ ReturnInterrupted
  \/ FinishLibrary
  \/ Stop

\* ------------------------------------------------------------------------
\* Specification of the override patterns of a run
\* ------------------------------------------------------------------------
\* s.strip()
strip(s) ==
  LET keep == {i \in 1..Len(s) : s[i] \notin Whitespace}
  IN IF keep = {} THEN << >>
     ELSE SubSeq(s, CHOOSE i \in keep : \A j \in keep : i <= j,
                 CHOOSE i \in keep : \A j \in keep : j <= i)

RECURSIVE ParseItems(_, _)
\* The items of a pattern text from position i on, as <<items>>, or << >>
\* where re raises re.error.  The texts read here are made of character
\* ranges [x-y], each followed or not by a count {n}, and of letters, digits
\* and spaces that stand for themselves; a "[" or a "(" that is never closed
\* is an error.
ParseItems(text, i) ==
  IF i > Len(text) THEN << << >> >>
  ELSE IF text[i] = "[" /\ i + 4 <= Len(text) /\ text[i + 2] = "-" /\ text[i + 4] = "]"
  THEN LET set == {AsciiPrintable[k - 31] : k \in Ord(text[i + 1])..Ord(text[i + 3])}
           counted == /\ i + 7 <= Len(text)
                      /\ text[i + 5] = "{"
                      /\ text[i + 6] \in DigitChars
                      /\ text[i + 7] = "}"
           n == IF counted THEN IntOf(text[i + 6]) ELSE 1
           rest == ParseItems(text, IF counted THEN i + 8 ELSE i + 5)
       IN IF rest = << >> THEN << >> ELSE << <<Rep(set, n, n)>> \o rest[1] >>
  ELSE IF text[i] \in WordChars \cup Whitespace
  THEN LET rest == ParseItems(text, i + 1)
       IN IF rest = << >> THEN << >> ELSE << <<One({text[i]})>> \o rest[1] >>
  ELSE << >>

\* re.compile(pattern_text): << >> for re.error, or <<pattern>>.  A pattern
\* made of ranges has no capture group.
re_compile(pattern_text) ==
  LET parsed == ParseItems(pattern_text, 1)
  IN IF parsed = << >> THEN << >>
     ELSE << [name |-> "override", groups |-> 0, alts |-> <<parsed[1]>>] >>

\* self.pii_labels of the desktop host
pii_labels ==
  {"aadhaar", "pan", "credit_card", "email", "passport", "driving_license", "phone", "person"}

\* compiled[key] = value
SetItem(dict, key, value) ==
  [k \in DOMAIN dict \cup {key} |-> IF k = key THEN value ELSE dict[k]]

RECURSIVE CompileWidgets(_, _, _, _)
\* The loop of _compile_overrides from the i-th widget on.  A text that does
\* not compile is reported with QMessageBox.warning, whose message reads
\* self.pii_labels[key]: a KeyError for a category that has no label.
CompileWidgets(widgets, i, dict, shown) ==
  IF i > Len(HandlerOrder) THEN [compiled |-> dict, warnings |-> shown, raised |-> FALSE]
  ELSE LET key == HandlerOrder[i]
           pattern_text == IF key \in DOMAIN widgets THEN strip(widgets[key]) ELSE << >>
       IN IF pattern_text = << >> THEN CompileWidgets(widgets, i + 1, dict, shown)
          ELSE IF re_compile(pattern_text) # << >>
          THEN CompileWidgets(widgets, i + 1,
                              SetItem(dict, key, re_compile(pattern_text)[1]), shown)
          ELSE IF key \in pii_labels
          THEN CompileWidgets(widgets, i + 1, dict, shown \cup {key})
          ELSE [compiled |-> dict, warnings |-> shown, raised |-> TRUE]

\* _compile_overrides()
_compile_overrides(preset_checked, widgets) ==
  IF preset_checked THEN [compiled |-> << >>, warnings |-> {}, raised |-> FALSE]
  ELSE CompileWidgets(widgets, 1, << >>, {})

\* The pattern loop of upload_file: a text that does not compile is skipped
\* ("except re.error: continue"); the text compiled is the text as sent.
UploadPatterns(use_preset_flag, texts) ==
  IF use_preset_flag THEN << >>
  ELSE [key \in {k \in DOMAIN texts : /\ strip(texts[k]) # << >>
                                      /\ re_compile(texts[k]) # << >>}
          |-> re_compile(texts[key])[1]]

\* The categories the model enters a pattern text for (the other texts are
\* left empty), and the texts entered.
OverrideKeys == {"phone", "dob"}

PatternTexts ==
  { << >>, <<" ">>,
    <<"[", "6", "-", "9", "]", "[", "0", "-", "9", "]", "{", "9", "}">>,
    <<" ", "[", "0", "-", "9", "]", "{", "4", "}", " ">>,
    <<"[", "6", "-", "9">>,
    <<"(">> }

\* The record the run of these overrides processes.
OverrideRow == <<Cell(<<"9", "8", "7", "6", "5", "4", "3", "2", "1", "0", " ", "1", "9", "9", "9">>)>>

InitOverrides ==
  /\ o_host \in {"web", "desktop"}
  /\ use_preset \in BOOLEAN
  /\ custom_patterns \in [OverrideKeys -> PatternTexts]
  /\ compiled = << >>
  /\ warnings = {}
  /\ o_pc = "compile"
  /\ o_out = << >>

IdleOverrides ==
  /\ o_host = "web"
  /\ use_preset = TRUE
  /\ custom_patterns = << >>
  /\ compiled = << >>
  /\ warnings = {}
  /\ o_pc = "done"
  /\ o_out = << >>

\* _run_detection up to the start of the worker: the overrides are compiled;
\* an exception out of _compile_overrides leaves the slot, and no worker is
\* started.
CompileOverridesDesktop ==
  /\ o_host = "desktop"
  /\ o_pc = "compile"
  /\ \E r \in {_compile_overrides(use_preset, custom_patterns)} :
       /\ compiled' = IF r.raised THEN compiled ELSE r.compiled
       /\ warnings' = r.warnings
       /\ o_pc' = IF r.raised THEN "raised" ELSE "run"
  /\ UNCHANGED <<o_host, use_preset, custom_patterns, o_out>>
  /\ UNCHANGED outside_overrides

\* upload_file up to the call of process_file
CompileOverridesWeb ==
  /\ o_host = "web"
  /\ o_pc = "compile"
  /\ compiled' = UploadPatterns(use_preset, custom_patterns)
  /\ o_pc' = "run"
  /\ UNCHANGED <<o_host, use_preset, custom_patterns, warnings, o_out>>
  /\ UNCHANGED outside_overrides

\* The run of the batch with the compiled overrides: the record is processed
\* with patterns = compiled.
RunWithOverrides ==
  /\ o_pc = "run"
  /\ \E strategy \in {"partial", "full"} :
       \E r \in {detect_and_deidentify_record(OverrideRow, compiled,
                                              HostMaskConfigs(strategy, "none"),
                                              EmptyContext, 0)} :
         /\ o_out' = <<[out_row |-> r.out_row, total_counts |-> r.total_counts]>>
         /\ o_pc' = IF r.raised = "" THEN "done" ELSE "raised"
  /\ UNCHANGED <<o_host, use_preset, custom_patterns, compiled, warnings>>
  /\ UNCHANGED outside_overrides

NextOverrides ==
  \/ CompileOverridesDesktop
  \/ CompileOverridesWeb
  \/ RunWithOverrides

\* ------------------------------------------------------------------------
\* The specifications
\* ------------------------------------------------------------------------
vars == <<vars_validator, vars_pseudo, vars_metrics, vars_handler, vars_mask, vars_overrides,
          vars_batch>>

InitOfValidator == InitValidator /\ IdlePseudo /\ IdleMetrics /\ IdleHandler /\ IdleMask /\ IdleOverrides /\ IdleBatch
SpecValidator == InitOfValidator /\ [][NextValidator]_vars

InitOfPseudo == InitPseudo /\ IdleValidator /\ IdleMetrics /\ IdleHandler /\ IdleMask /\ IdleOverrides /\ IdleBatch
SpecPseudo == InitOfPseudo /\ [][NextPseudo]_vars

InitOfMetrics == InitMetrics /\ IdleValidator /\ IdlePseudo /\ IdleHandler /\ IdleMask /\ IdleOverrides /\ IdleBatch
SpecMetrics == InitOfMetrics /\ [][NextMetrics]_vars

InitOfHandler == InitHandler /\ IdleValidator /\ IdlePseudo /\ IdleMetrics /\ IdleMask /\ IdleOverrides /\ IdleBatch
SpecHandler == InitOfHandler /\ [][NextHandler]_vars

InitOfMask == InitMask /\ IdleValidator /\ IdlePseudo /\ IdleMetrics /\ IdleHandler /\ IdleOverrides /\ IdleBatch
SpecMask == InitOfMask /\ [][NextMask]_vars

InitOfRepeat ==
  InitRepeat /\ IdleValidator /\ IdlePseudo /\ IdleMetrics /\ IdleMask /\ IdleOverrides /\ IdleBatch
SpecRepeat == InitOfRepeat /\ [][NextRepeat]_vars

InitOfOverrides ==
  InitOverrides /\ IdleValidator /\ IdlePseudo /\ IdleMetrics /\ IdleHandler /\ IdleMask /\ IdleBatch
SpecOverrides == InitOfOverrides /\ [][NextOverrides]_vars

\* A batch run; the metrics variables are its summary and its report.
Init == InitBatch /\ IdleValidator /\ IdlePseudo /\ IdleHandler /\ IdleMask /\ IdleOverrides

Next == NextBatch

Spec == Init /\ [][Next]_vars

\* ------------------------------------------------------------------------
\* Claims about the validators
\* ------------------------------------------------------------------------
\* The number of ASCII digits of the argument.
DigitCount(s) == Len(StripNonDigits(s))

\* C9: the Verhoeff validator returns false (and never raises) unless exactly
\* 12 digits remain after the non-digit characters are stripped; the empty
\* string and every other digit count yield false.
C9_VerhoeffFailsClosed ==
  v_called = "verhoeff" =>
    /\ v_outcome \in {"True", "False"}
    /\ (DigitCount(v_arg) # 12 => v_outcome = "False")

\* C10: the Luhn validator returns false for every input whose digit count is
\* outside [13, 19], true for every number built by the standard check-digit
\* construction, and false once one digit of such a number is changed.
C10_LuhnContract ==
  v_called = "luhn" =>
    /\ (~(13 <= DigitCount(v_arg) /\ DigitCount(v_arg) <= 19) => v_outcome = "False")
    /\ (v_provenance = "luhn_built" => v_outcome = "True")
    /\ (v_provenance = "luhn_altered" => v_outcome = "False")

\* Whether every entry of a sequence of rows is a permutation of 0..9.
RowsArePermutations(table) ==
  \A r \in 1..Len(table) : {table[r][k] : k \in 1..10} = 0..9

\* C11: the Verhoeff validator returns true for every 12-digit number whose
\* last digit the standard construction made from the first 11, and false
\* once one digit of such a number is changed to another; the rows and the
\* columns of the multiplication table and the rows of the permutation table
\* are permutations of 0..9.
C11_VerhoeffConstruction ==
  /\ v_called = "verhoeff" =>
       /\ (v_provenance = "verhoeff_built" => v_outcome = "True")
       /\ (v_provenance = "verhoeff_altered" => v_outcome = "False")
  /\ RowsArePermutations(d_table)
  /\ RowsArePermutations([k \in 1..10 |-> [r \in 1..10 |-> d_table[r][k]]])
  /\ RowsArePermutations(p_table)

\* The validator was called on a built number with one digit changed.
C11_Witness ==
  /\ v_called = "verhoeff"
  /\ v_provenance = "verhoeff_altered"
  /\ Len(v_arg) = 12
  /\ v_outcome = "False"

\* The same contract over the arguments int() accepts: every character that
\* isdigit() keeps is an ASCII digit.
LuhnContractOnDecimalInput ==
  (v_called = "luhn" /\ \A i \in 1..Len(v_arg) : v_arg[i] \notin SuperDigits) =>
    /\ (~(13 <= DigitCount(v_arg) /\ DigitCount(v_arg) <= 19) => v_outcome = "False")
    /\ (v_provenance = "luhn_built" => v_outcome = "True")
    /\ (v_provenance = "luhn_altered" => v_outcome = "False")

\* ------------------------------------------------------------------------
\* Claims about the pseudonymizer
\* ------------------------------------------------------------------------
\* The index of the first call made with the key of call i.
FirstCall(i) ==
  CHOOSE j \in 1..i :
    /\ pseudo_calls[j][1] = pseudo_calls[i][1]
    /\ \A k \in 1..(j - 1) : pseudo_calls[k][1] # pseudo_calls[i][1]

\* The number of distinct keys seen up to and including call j.
KeysSeen(j) == Cardinality({pseudo_calls[k][1] : k \in 1..j})

\* C1: within one pseudonymizer every call with the same key returns the alias
\* of the first call with that key, and the M distinct keys get the M distinct
\* aliases user1 .. userM in the order the keys were first seen.
C1_PseudonymStable ==
  /\ \A i \in 1..Len(pseudo_calls) :
       /\ pseudo_calls[i][2] = pseudo_calls[FirstCall(i)][2]
       /\ pseudo_calls[i][2] = UserAlias(KeysSeen(FirstCall(i)))
  /\ \A i, j \in 1..Len(pseudo_calls) :
       pseudo_calls[i][1] # pseudo_calls[j][1] => pseudo_calls[i][2] # pseudo_calls[j][2]

\* A key is seen, then a second key, then the first key again.
C1_Witness ==
  /\ Len(pseudo_calls) >= 3
  /\ pseudo_calls[1][1] = pseudo_calls[3][1]
  /\ pseudo_calls[1][1] # pseudo_calls[2][1]
  /\ pseudo_calls[3][2] = UserAlias(1)
  /\ pseudo_calls[2][2] = UserAlias(2)

\* ------------------------------------------------------------------------
\* Claims about the metrics engine
\* ------------------------------------------------------------------------
\* The categories whose metrics were drawn (the others hold found 0, expected None).
Computed == report_metrics # << >>
Entry(c) == report_metrics[1][c]

\* tp, fp, fn, precision, recall and f1 as the claim states them.
ClaimTp(f, e) == IF e # None THEN Min(f, e[1]) ELSE f
ClaimFp(f, e) == IF e # None THEN Max(0, f - e[1]) ELSE 0
ClaimFn(f, e) == IF e # None THEN Max(0, e[1] - f) ELSE 0
\* a / b as a pair, 0 when b = 0; pairs are compared by cross-multiplication.
SameRatio(x, a, b) == IF b = 0 THEN x[1] = 0 ELSE x[1] * b = a * x[2]

ClaimFormulas(c) ==
  LET f == summary.matches[c]
      e == expected_counts[c]
      tp == ClaimTp(f, e)
      fp == ClaimFp(f, e)
      fn == ClaimFn(f, e)
      m == Entry(c)
  IN /\ m.found = f /\ m.expected = e
     /\ m.tp = tp /\ m.fp = fp
     /\ SameRatio(m.precision, tp, tp + fp)
     /\ SameRatio(m.recall, tp, tp + fn)
     \* f1 = 2pr/(p+r) with p = tp/(tp+fp), r = tp/(tp+fn) is 2tp/(2tp+fp+fn)
     /\ SameRatio(m.f1, 2 * tp, IF tp = 0 THEN 0 ELSE 2 * tp + fp + fn)
     /\ m.risk \in {"N/A", "Low", "Medium", "High", "Critical"}

\* C7: tp, fp, fn, precision, recall and f1 follow the stated formulas, and
\* the MetricEntry carries found, expected, tp, fp, fn, precision, recall, f1
\* and risk.
C7_MetricEntry ==
  Computed =>
    \A c \in PII_HANDLERS :
      /\ ClaimFormulas(c)
      /\ "fn" \in DOMAIN Entry(c)
      /\ Entry(c).fn = ClaimFn(summary.matches[c], expected_counts[c])

\* The part of C7 that the entries do satisfy: every field they carry follows
\* the stated formula.
MetricFormulasHold == Computed => \A c \in PII_HANDLERS : ClaimFormulas(c)

\* The risk the claim's ordered rules give.
ClaimRisk(f, e) ==
  LET tp == ClaimTp(f, e)
      fp == ClaimFp(f, e)
  IN IF e = None THEN "N/A"
     ELSE IF tp = 0 /\ fp > 0 THEN "Critical"
     ELSE IF tp > 0 /\ fp = 0 THEN "Low"
     ELSE IF tp + fp > 0 /\ 5 * tp >= 4 * (tp + fp) THEN "Medium"
     ELSE IF tp + fp > 0 /\ 2 * tp >= tp + fp THEN "High"
     ELSE "Critical"

\* C8: risk is N/A exactly when expected is unset; otherwise the first rule
\* that matches decides it; the desktop and the web implementation agree.
C8_RiskRules ==
  Computed =>
    \A c \in PII_HANDLERS :
      /\ (Entry(c).risk = "N/A") <=> (expected_counts[c] = None)
      /\ Entry(c).risk = ClaimRisk(summary.matches[c], expected_counts[c])
      /\ calculate_metrics(summary, expected_counts)[c].risk
           = Worker_calculate_metrics(summary, expected_counts)[c].risk

\* Metrics were computed for a category with more found than expected and a
\* precision of at least 0.8: the third rule decides.
C8_Witness ==
  /\ Computed
  /\ \E c \in PII_HANDLERS :
       /\ expected_counts[c] # None
       /\ Entry(c).tp > 0 /\ Entry(c).fp > 0
       /\ Entry(c).risk = "Medium"

\* ------------------------------------------------------------------------
\* Claims about the category handlers
\* ------------------------------------------------------------------------
HandlerCalled == h_result # << >>

\* The matches of the category's default pattern in the text handed in.
InputMatches == FindAll(DefaultPattern(h_key), h_text, 1)
InputMatch(i) == Group0(h_text, InputMatches[i])

\* Whether the i-th match passes the checksum of its category; the categories
\* without a checksum accept every match.
Passes(i) ==
  CASE h_key = "aadhaar" -> aadhaar_verhoeff(StripNonDigits(InputMatch(i)))
    [] h_key = "credit_card" -> luhn_checksum_ok(StripNonDigits(InputMatch(i))) = "True"
    [] OTHER -> TRUE

AcceptedMatches == {i \in 1..Len(InputMatches) : Passes(i)}

RECURSIVE Shift(_)
\* How far the replacements of the matches before the i-th move it in the output.
Shift(i) ==
  IF i = 1 THEN 0
  ELSE Shift(i - 1) + Len(h_result[1].reps[i - 1]) - Len(InputMatch(i - 1))

\* What stands in the output where the i-th match stood, over n characters.
OutputAt(i, n) ==
  SubSeq(h_result[1].text, InputMatches[i][1] + Shift(i),
         InputMatches[i][1] + Shift(i) + n - 1)

\* C4: for the national-ID and the card category a match whose checksum fails
\* is left in the output exactly as it was and is not counted, whatever the
\* strategy; a match whose checksum passes is replaced and counted.
C4_ChecksumGate ==
  (HandlerCalled /\ h_key \in {"aadhaar", "credit_card"}) =>
    /\ Len(h_result[1].reps) = Len(InputMatches)
    /\ \A i \in 1..Len(InputMatches) :
         IF Passes(i)
         THEN h_kwargs["strategy"] \in Strategies =>
                /\ OutputAt(i, Len(h_result[1].reps[i])) = h_result[1].reps[i]
                /\ h_result[1].reps[i] # InputMatch(i)
         ELSE OutputAt(i, Len(InputMatch(i))) = InputMatch(i)
    /\ Len(h_result[1].text)
         = Len(h_text) + (IF InputMatches = << >> THEN 0
                          ELSE Shift(Len(InputMatches))
                                 + Len(h_result[1].reps[Len(InputMatches)])
                                 - Len(InputMatch(Len(InputMatches))))
    /\ h_result[1].count = Cardinality(AcceptedMatches)

\* The card handler ran with a strategy other than partial on a text with a
\* match that passes and a match that fails: one left, the others counted.
C4_Witness ==
  /\ HandlerCalled
  /\ h_key = "credit_card"
  /\ h_kwargs["strategy"] = "redact"
  /\ \E i, j \in 1..Len(InputMatches) : Passes(i) /\ ~Passes(j)
  /\ h_result[1].count = 2
  /\ h_result[1].text # h_text

\* C5: the count a handler returns is the number of accepted matches, each
\* counted once, and is the same whichever strategy is configured.
C5_CountAccepted ==
  HandlerCalled =>
    /\ h_result[1].count = Cardinality(AcceptedMatches)
    /\ \A strategy \in StrategyInputs :
         Handler(h_key, h_text, << >>, [h_kwargs EXCEPT !["strategy"] = strategy],
                 h_context, h_rnd).count = h_result[1].count

\* The email handler ran with the hash strategy on a text with three emails.
C5_Witness ==
  /\ HandlerCalled
  /\ h_key = "email"
  /\ h_kwargs["strategy"] = "hash"
  /\ Len(InputMatches) = 3
  /\ h_result[1].count = 3

\* ------------------------------------------------------------------------
\* Claims about a batch run
\* ------------------------------------------------------------------------
RECURSIVE Flatten(_)
\* The sequences of a sequence, one after the other.
Flatten(seqs) == IF seqs = << >> THEN << >> ELSE Head(seqs) \o Flatten(Tail(seqs))

\* The emails of a text, in order.
EmailsIn(text) ==
  LET ms == FindAll(EMAIL_PATTERN, text, 1)
  IN [i \in 1..Len(ms) |-> Group0(text, ms[i])]

\* The emails of the records processed so far, as they came in and as they
\* went out, in the order of the records and of their cells.
EmailsSeen ==
  Flatten([i \in 1..Len(deidentified_rows) |->
    Flatten([j \in 1..Len(input_rows[i]) |-> EmailsIn(CellOrEmpty(input_rows[i][j]))])])
EmailsWritten ==
  Flatten([i \in 1..Len(deidentified_rows) |->
    Flatten([j \in 1..Len(deidentified_rows[i]) |-> EmailsIn(deidentified_rows[i][j])])])

LocalPart(email) == SubSeq(email, 1, LastIndexOf(email, "@") - 1)
Domain(email) == SubSeq(email, LastIndexOf(email, "@") + 1, Len(email))

\* The alias the n-th email seen is due: user<r>, its local-part being the
\* r-th distinct local-part of the batch.
AliasDue(n) ==
  LET first == CHOOSE m \in 1..n :
                 /\ LocalPart(EmailsSeen[m]) = LocalPart(EmailsSeen[n])
                 /\ \A l \in 1..(m - 1) : LocalPart(EmailsSeen[l]) # LocalPart(EmailsSeen[n])
  IN UserAlias(Cardinality({LocalPart(EmailsSeen[m]) : m \in 1..first}))

HostBatchWithPartialEmail ==
  /\ host \in {"web", "desktop"}
  /\ Enabled(ConfigOf(self_mask_configs, "email"))
  /\ self_mask_configs["email"]["strategy"] = "partial"

\* C2: in a batch run by a host loop, with email enabled and strategy
\* partial, the first email seen gets the local-part user1 and keeps its
\* domain, every later occurrence of an email gets the alias of its first
\* occurrence, and an email with a new local-part gets the next new alias.
C2_BatchEmailAliases ==
  HostBatchWithPartialEmail =>
    /\ Len(EmailsWritten) = Len(EmailsSeen)
    /\ \A n \in 1..Len(EmailsSeen) :
         EmailsWritten[n] = AliasDue(n) \o <<"@">> \o Domain(EmailsSeen[n])

\* What the hosts do write for every email: the local-part "user", no number.
HostsWriteBareUser ==
  HostBatchWithPartialEmail =>
    /\ Len(EmailsWritten) = Len(EmailsSeen)
    /\ \A n \in 1..Len(EmailsSeen) :
         EmailsWritten[n] = <<"u", "s", "e", "r", "@">> \o Domain(EmailsSeen[n])

\* The aliases an anonymizer of the run context has handed out.
AliasesOf(name) ==
  IF ~run_context.is_none /\ name \in DOMAIN run_context.dict
  THEN {run_context.dict[name].mapping[k] : k \in DOMAIN run_context.dict[name].mapping}
  ELSE {}

\* C3: within one run context no alias assigned to an email local-part is
\* also assigned to a person-name token.
C3_AliasSpacesDisjoint ==
  AliasesOf("email_anonymizer") \cap AliasesOf("person_anonymizer") = {}

\* Whether a category is switched off: its config says so, or it has none.
SwitchedOff(key) == ~Enabled(ConfigOf(self_mask_configs, key))

\* C6: in process_text a category that is disabled or has no config is
\* skipped: its handler is not called, its count is 0, and neither the text
\* nor the run context changes in its turn.
C6_DisabledSkipped ==
  /\ \A c \in 1..Len(last_calls) : \A t \in 1..Len(last_calls[c]) :
       LET step == last_calls[c][t]
       IN SwitchedOff(step.key) =>
            /\ ~step.invoked
            /\ step.count = 0
            /\ step.text_out = step.text_in
            /\ step.context_out = step.context_in
  /\ \A key \in PII_HANDLERS : SwitchedOff(key) => summary.matches[key] = 0

\* A record was processed in which a category without a config had its turn
\* on a text that holds a match of that category.
C6_Witness ==
  \E c \in 1..Len(last_calls) : \E t \in 1..Len(last_calls[c]) :
    LET step == last_calls[c][t]
    IN /\ step.key \notin DOMAIN self_mask_configs
       /\ FindAll(DefaultPattern(step.key), step.text_in, 1) # << >>
       /\ ~step.invoked
       /\ step.text_out = step.text_in

\* ------------------------------------------------------------------------
\* Encrypt strategy
\* ------------------------------------------------------------------------
\* The value of a base64 character.
B64Value(c) == (CHOOSE i \in 1..64 : B64Alphabet[i] = c) - 1

RECURSIVE b64decode(_)
\* base64 decoding: four characters give three bytes, fewer where the group
\* ends in "=".
b64decode(chars) ==
  IF Len(chars) < 4 THEN << >>
  ELSE LET a == B64Value(chars[1])
           b == B64Value(chars[2])
           rest == b64decode(SubSeq(chars, 5, Len(chars)))
       IN IF chars[3] = "=" THEN <<a * 4 + (b \div 16)>>
          ELSE IF chars[4] = "="
          THEN <<a * 4 + (b \div 16), (b % 16) * 16 + (B64Value(chars[3]) \div 4)>>
          ELSE <<a * 4 + (b \div 16), (b % 16) * 16 + (B64Value(chars[3]) \div 4),
                 (B64Value(chars[3]) % 4) * 64 + B64Value(chars[4])>> \o rest

\* XOR of each code with the key character at the same position of the
\* repeating key.
XorRepeatingKey(codes, key) ==
  [i \in 1..Len(codes) |-> Xor(codes[i], Ord(key[((i - 1) % Len(key)) + 1]))]

\* The text whose characters have the given codes, where every code is that of
\* a printable character; << >> marks codes that are not.
TextOf(codes) ==
  IF \A i \in 1..Len(codes) : codes[i] \in 32..126
  THEN <<[i \in 1..Len(codes) |-> AsciiPrintable[codes[i] - 31]]>>
  ELSE << >>

\* C12: the Encrypt strategy is reversible.  Decoding the replacement from
\* base64 and XOR-ing it with the same repeating key gives back the matched
\* text exactly, whatever its length: shorter than the key, as long as the key,
\* a multiple of the key length, or longer.
C12_EncryptReversible ==
  (m_out # << >> /\ m_strategy = "encrypt")
    => TextOf(XorRepeatingKey(b64decode(m_out[1]), XOR_KEY)) = <<m_text>>

\* An encrypted text twice as long as the key.
C12_Witness ==   m_out # << >> /\ m_strategy = "encrypt" /\ Len(m_text) = 2 * Len(XOR_KEY)

\* ------------------------------------------------------------------------
\* Override patterns
\* ------------------------------------------------------------------------
\* The categories whose pattern text was entered and does not compile, and
\* those whose text compiles.
InvalidOverrides ==
  {key \in DOMAIN custom_patterns :
     strip(custom_patterns[key]) # << >> /\ re_compile(strip(custom_patterns[key])) = << >>}

ValidOverrides ==
  {key \in DOMAIN custom_patterns :
     strip(custom_patterns[key]) # << >> /\ re_compile(strip(custom_patterns[key])) # << >>}

OverridesCompiled == o_pc \in {"run", "done", "raised"} /\ ~use_preset /\ InvalidOverrides # {}

\* C13: when an override pattern text does not compile, in both hosts the
\* failure is reported as a warning, no override is installed for that
\* category, the overrides of the other categories are kept, and the batch
\* runs to completion (the host's code is not left with an exception).
C13_InvalidOverrideWarned ==
  OverridesCompiled =>
    /\ \A key \in InvalidOverrides : key \in warnings /\ key \notin DOMAIN compiled
    /\ \A key \in ValidOverrides : key \in DOMAIN compiled
    /\ o_pc # "raised"

\* What both hosts do keep: a text that does not compile installs no
\* override, and the record is then processed with the default pattern of the
\* category, as it is when no text was entered for it.
InvalidOverrideNotInstalled ==
  (o_pc \in {"run", "done", "raised"}) => \A key \in InvalidOverrides : key \notin DOMAIN compiled

\* ------------------------------------------------------------------------
\* The caller's mask_configs
\* ------------------------------------------------------------------------
\* C14: the mask_configs mapping the caller supplied is not modified by the
\* run: at every point of a batch each of its MaskConfig entries has exactly
\* the keys enabled, strategy and char.
C14_MaskConfigsNotModified ==
  \A key \in DOMAIN self_mask_configs :
    DOMAIN self_mask_configs[key] = {"enabled", "strategy", "char"}

\* The entries of the categories that are switched off are left as they were.
DisabledConfigsNotModified ==
  \A key \in DOMAIN self_mask_configs :
    ~self_mask_configs[key]["enabled"] =>
       DOMAIN self_mask_configs[key] = {"enabled", "strategy", "char"}

\* ------------------------------------------------------------------------
\* Null cells
\* ------------------------------------------------------------------------
\* The records processed so far.
Processed == 1..Len(deidentified_rows)

\* The positions of the None cells of the i-th input row.
NoneCells(i) == {j \in 1..Len(input_rows[i]) : input_rows[i][j].none}

\* The matches the process_text call of the j-th cell of the last record
\* processed counted, over all categories.
CountedInCall(j) ==
  {step.count : step \in {last_calls[j][k] : k \in 1..Len(last_calls[j])}}

\* C15: a None cell is treated as the empty string.  Every record processed
\* gives an output row with as many cells as the input row, the output cell
\* at the position of a None cell is the empty string, the cells around it
\* are the results of their own process_text calls in the order of the input,
\* and the call made for a None cell counts nothing in any category.
C15_NoneCellIsEmpty ==
  /\ \A i \in Processed :
       /\ Len(deidentified_rows[i]) = Len(input_rows[i])
       /\ \A j \in NoneCells(i) : deidentified_rows[i][j] = << >>
  /\ Processed # {} =>
       LET i == Len(deidentified_rows)
       IN /\ Len(last_calls) = Len(input_rows[i])
          /\ \A j \in 1..Len(input_rows[i]) :
               /\ last_calls[j][1].text_in = CellOrEmpty(input_rows[i][j])
               /\ deidentified_rows[i][j] = last_calls[j][Len(last_calls[j])].text_out
          /\ \A j \in NoneCells(i) : CountedInCall(j) = {0}

\* A record with a None cell between two cells of text has been processed.
C15_Witness ==
    \E i \in Processed :
      \E j \in NoneCells(i) : 1 < j /\ j < Len(input_rows[i])

\* ------------------------------------------------------------------------
\* Cancellation
\* ------------------------------------------------------------------------
RECURSIVE CountedInCalls(_, _, _)
\* The matches of category key that the process_text calls of a record
\* counted, from the j-th call on.
CountedInCalls(calls, key, j) ==
  IF j > Len(calls) THEN 0
  ELSE LET k == CHOOSE k \in 1..Len(calls[j]) : calls[j][k].key = key
       IN calls[j][k].count + CountedInCalls(calls, key, j + 1)

\* C17: the desktop worker examines the cancellation flag only between
\* records.  From a point where a record is being processed, whether stop()
\* has been called or not, the next thing the worker does is to finish that
\* record: its row is appended, rows_processed grows by one and the counts of
\* the record are added to the summary, and only then is the flag examined
\* again.  At every examination of the flag the summary covers exactly the
\* rows appended.
C17_StopBetweenRecords ==
  [][(host = "desktop" /\ pc = "loop_body") =>
       \/ /\ pc' = "loop_body"
          /\ is_interrupted'
          /\ UNCHANGED <<deidentified_rows, summary>>
       \/ /\ pc' = "loop_test"
          /\ Len(deidentified_rows') = Len(deidentified_rows) + 1
          /\ summary'.rows_processed = summary.rows_processed + 1
          /\ summary'.rows_processed = Len(deidentified_rows')
          /\ \A key \in PII_HANDLERS :
               summary'.matches[key] =
                 summary.matches[key] + CountedInCalls(last_calls', key, 1)]_vars

\* stop() has been called while a record is being processed.
C17_Witness ==   host = "desktop" /\ pc = "loop_body" /\ is_interrupted

\* ------------------------------------------------------------------------
\* Pseudonymizer invariants
\* ------------------------------------------------------------------------
\* The keys of a context under which a pseudonymizer is stored.
AnonymizerKeys(context) ==
  IF context.is_none THEN {}
  ELSE DOMAIN context.dict \cap {"email_anonymizer", "person_anonymizer"}

\* The counter is the number of recorded keys plus one, the recorded aliases
\* are exactly user1 .. user(counter-1), and no alias is that of two keys.
WellNumbered(obj) ==
  /\ obj.counter = Cardinality(DOMAIN obj.mapping) + 1
  /\ {obj.mapping[k] : k \in DOMAIN obj.mapping} = {UserAlias(n) : n \in 1..(obj.counter - 1)}
  /\ \A k1, k2 \in DOMAIN obj.mapping : obj.mapping[k1] = obj.mapping[k2] => k1 = k2

\* From before to after: no recorded key is removed or re-mapped and the
\* counter does not decrease.
OnlyGrows(before, after) ==
  /\ after.counter >= before.counter
  /\ \A k \in DOMAIN before.mapping :
       k \in DOMAIN after.mapping /\ after.mapping[k] = before.mapping[k]

\* C19: every pseudonymizer of the run context, and a pseudonymizer driven on
\* its own, is well numbered before and after every step (counter = number of
\* keys + 1, aliases exactly user1 .. user(counter-1), none shared), and a
\* step, be it a call or a whole record of a batch, removes and re-maps no
\* key, never lowers the counter and never drops a pseudonymizer from the
\* context.
C19_PseudonymizerInvariants ==
  [][/\ WellNumbered(pseudonymizer) /\ WellNumbered(pseudonymizer')
     /\ OnlyGrows(pseudonymizer, pseudonymizer')
     /\ \A key \in AnonymizerKeys(run_context) : WellNumbered(run_context.dict[key])
     /\ \A key \in AnonymizerKeys(run_context') : WellNumbered(run_context'.dict[key])
     /\ \A key \in AnonymizerKeys(run_context) :
          /\ key \in AnonymizerKeys(run_context')
          /\ OnlyGrows(run_context.dict[key], run_context'.dict[key])]_vars

\* After the second record of a batch the email pseudonymizer of the context
\* holds two keys, one of them met in both records or one in each.
C19_Witness ==
    /\ Len(deidentified_rows) = 2
    /\ "email_anonymizer" \in AnonymizerKeys(run_context)
    /\ "person_anonymizer" \in AnonymizerKeys(run_context)
    /\ run_context.dict["email_anonymizer"].counter = 3

\* ------------------------------------------------------------------------
\* Risk bands
\* ------------------------------------------------------------------------
\* The bands of one category whose expected count is e.
RiskBands(c, f, e) ==
  LET m == Entry(c)
      l == MetricLocals(f, Some(e))
  IN /\ (m.risk = "Low") <=> (0 < f /\ f <= e)
     /\ (f = 0 \/ (e = 0 /\ 0 < f) \/ f > 2 * e) => m.risk = "Critical"
     /\ m.risk \in {"Medium", "High"} => (f > e /\ e > 0)
     /\ m.risk \in {"Low", "Medium", "High", "Critical"}
     /\ m.risk = calculate_metrics(summary, expected_counts)[c].risk
     /\ m.risk = Worker_calculate_metrics(summary, expected_counts)[c].risk
     /\ m.tp = l.tp /\ m.fp = l.fp
     /\ SameRatio(m.recall, m.tp, m.tp + l.fn)
     /\ m.tp + m.fp = f
     /\ m.tp + l.fn = e
     /\ ~(m.fp > 0 /\ l.fn > 0)

\* C20: when expected is set the risk depends on (found, expected) alone, the
\* same in both hosts: Low exactly when 0 < found <= expected; Critical
\* whenever found = 0, or expected = 0 < found, or found > 2 * expected;
\* Medium or High only when found > expected > 0; and always tp + fp = found,
\* tp + fn = expected, with fp and fn never both positive.
C20_RiskBands ==
  Computed =>
    \A c \in PII_HANDLERS :
      expected_counts[c] # None => RiskBands(c, summary.matches[c], expected_counts[c][1])

\* Metrics were computed for a category with none found and none expected.
C20_Witness ==
    Computed /\ \E c \in PII_HANDLERS :
                  expected_counts[c] = Some(0) /\ summary.matches[c] = 0

\* Metrics were computed for a category with more than twice the expected
\* count found.
FoundOverTwiceExpected ==
  ~(Computed /\ \E c \in PII_HANDLERS :
                  /\ expected_counts[c] # None
                  /\ expected_counts[c][1] > 0
                  /\ summary.matches[c] > 2 * expected_counts[c][1])

\* ------------------------------------------------------------------------
\* Totality of the handlers, and the second pass
\* ------------------------------------------------------------------------
\* C16: every handler is total: whatever the text, the pattern (the default
\* one or an override, with or without capture groups), the strategy and the
\* context, the call returns a (text, count) pair and raises nothing.
C16_HandlersTotal ==
  /\ h_result # << >> => h_result[1].raised = ""
  /\ h_second # << >> => h_second[1].raised = ""

\* With the default patterns, and with overrides that have the groups of the
\* default patterns, every call returns.
HandlersTotalWithDefaultGroups ==
  (h_result # << >> /\ (h_pattern = << >> \/ h_pattern[1].groups > 0))
    => h_result[1].raised = ""

\* The second call, under Full, Redact or Hash, has returned.
SecondPassDone ==
  /\ h_second # << >>
  /\ h_second[1].raised = ""
  /\ h_kwargs["strategy"] \in {"full", "redact", "hash"}
  /\ h_result[1].count > 0

\* C18: under Full, Redact and Hash, for every category and every mask
\* character, a second call of the same handler with the same pattern on the
\* output of the first finds nothing: its count is 0 and it returns the text
\* unchanged.
C18_SecondPassFindsNothing ==
  SecondPassDone => (h_second[1].count = 0 /\ h_second[1].text = h_result[1].text)

\* Redact and Hash do have the property, and so does Full with a mask
\* character that is not a digit.
RedactAndHashFindNothing ==
  (SecondPassDone /\ (h_kwargs["strategy"] \in {"redact", "hash"} \/ h_kwargs["char"] = <<"*">>))
    => (h_second[1].count = 0 /\ h_second[1].text = h_result[1].text)

\* ------------------------------------------------------------------------
\* The summary of a batch
\* ------------------------------------------------------------------------
\* The summary covers the rows produced so far.
RowsCounted == summary.rows_processed = Len(deidentified_rows)

\* The row just appended is the de-identified form of the input row at the
\* same position: cell by cell, process_text was given the cell of the input
\* and the output cell is the text it returned.
AppendedInOrder ==
  LET i == Len(deidentified_rows')
  IN /\ i <= Len(input_rows)
     /\ Len(deidentified_rows'[i]) = Len(input_rows[i])
     /\ Len(last_calls') = Len(input_rows[i])
     /\ \A j \in 1..Len(input_rows[i]) :
          /\ last_calls'[j][1].text_in = CellOrEmpty(input_rows[i][j])
          /\ deidentified_rows'[i][j] = last_calls'[j][Len(last_calls'[j])].text_out

\* C21: at every point of a batch run rows_processed is the number of
\* de-identified rows produced so far; a step either leaves the rows and the
\* summary as they are, or appends the row of the next input record, adds one
\* to rows_processed and adds to every matches[c] the count of that record
\* for c, the sum of its per-cell counts (so each matches[c] is the sum over
\* the rows produced); the rows already produced stay in place, and
\* rows_processed and every matches[c] never decrease.
C21_SummaryFollowsRows ==
  [][/\ RowsCounted /\ RowsCounted'
     /\ summary'.rows_processed >= summary.rows_processed
     /\ \A key \in PII_HANDLERS : summary'.matches[key] >= summary.matches[key]
     /\ \/ UNCHANGED <<deidentified_rows, summary>>
        \/ /\ Len(deidentified_rows') = Len(deidentified_rows) + 1
           /\ SubSeq(deidentified_rows', 1, Len(deidentified_rows)) = deidentified_rows
           /\ AppendedInOrder
           /\ summary'.rows_processed = summary.rows_processed + 1
           /\ \A key \in PII_HANDLERS :
                summary'.matches[key]
                  = summary.matches[key] + CountedInCalls(last_calls', key, 1)]_vars

\* Two records have been processed and both added to the count of a category.
C21_Witness ==
    /\ pc = "loop_test"
    /\ Len(deidentified_rows) = 2
    /\ \E key \in PII_HANDLERS :
         /\ CountedInCalls(last_calls, key, 1) > 0
         /\ summary.matches[key] > CountedInCalls(last_calls, key, 1)

\* ------------------------------------------------------------------------
\* The outcomes of Worker.run
\* ------------------------------------------------------------------------
\* The steps of the worker thread that only move it along: reading the file,
\* the loop test, and the two ends of run that emit nothing.
WorkerMoves ==
  \/ ReadInput
  \/ ReadRaises
  \/ LoopTest
  \/ ReturnInterrupted
  \/ FinishLibrary

\* Its steps that compute: a record, or the metrics before the result is
\* handed over.
WorkerComputes ==
  \/ ProcessRecord
  \/ FinishWeb
  \/ FinishDesktop

\* ENABLED <<WorkerComputes>>_vars, read off the guards of the three actions:
\* each of them is total under its guard and changes pc.
WorkerComputesEnabled ==
  \/ pc = "loop_body"
  \/ pc = "after_loop" /\ host = "web"
  \/ pc = "after_loop" /\ host = "desktop" /\ ~is_interrupted

\* WF_vars(WorkerComputes), with its ENABLED written as the state predicate
\* above.
WorkerComputesFair ==
  \/ []<>(~WorkerComputesEnabled)
  \/ []<><<WorkerComputes>>_vars

\* A started thread keeps running run(): each of its steps is taken once it
\* stays possible.  stop() is called from the main thread (closeEvent), and
\* may or may not ever be called.
SpecWorkerRuns ==
  Init /\ [][Next]_vars /\ WF_vars(WorkerMoves) /\ WorkerComputesFair

\* finished was emitted once, and nothing else, carrying every input row
\* de-identified, the summary of all of them and the metrics of that summary.
OutcomeFinished ==
  /\ Len(emitted) = 1
  /\ emitted[1].signal = "finished"
  /\ Len(emitted[1].rows) = Len(input_rows)
  /\ emitted[1].rows = deidentified_rows
  /\ emitted[1].summary = summary
  /\ emitted[1].summary.rows_processed = Len(input_rows)
  /\ emitted[1].report_metrics = Worker_calculate_metrics(summary, expected_counts)

\* error was emitted once, and nothing else.
OutcomeError ==
  /\ Len(emitted) = 1
  /\ emitted[1].signal = "error"

\* Neither signal was emitted, and stop() had been observed.
OutcomeSilent ==
  /\ emitted = << >>
  /\ is_interrupted

\* C22: every execution of Worker.run ends, and ends in exactly one of three
\* outcomes: finished emitted once (with rows, summary and metrics for all
\* input rows) and no error; error emitted once and no finished; or, stop()
\* having been observed, neither signal.  Nothing is emitted before the end
\* and nothing after it, so rows processed before a stop are never delivered,
\* and finished never carries a summary of only part of the input.
C22_RunEndsInOneOutcome ==
  /\ [](host = "desktop" =>
          /\ pc # "done" => emitted = << >>
          /\ pc = "done" =>
               /\ OutcomeFinished \/ OutcomeError \/ OutcomeSilent
               /\ ~(OutcomeFinished /\ OutcomeError)
               /\ ~(OutcomeFinished /\ OutcomeSilent)
               /\ ~(OutcomeError /\ OutcomeSilent))
  /\ [][pc = "done" => emitted' = emitted]_vars
  /\ <>(pc = "done")

\* Reached: a run that was stopped after some rows were processed and ended
\* without a signal.
C22_Witness ==
    /\ host = "desktop"
    /\ pc = "done"
    /\ OutcomeSilent
    /\ Len(deidentified_rows) >= 1

\* Reached as well: a run that emitted finished, and a run that emitted error.
C22_WitnessFinished ==
  host = "desktop" /\ pc = "done" /\ OutcomeFinished /\ Len(input_rows) = 2

C22_WitnessError ==
  host = "desktop" /\ pc = "done" /\ OutcomeError

====
